---- MODULE Spec2Model ----
(***************************************************************************)
(* Financial-mutation consistency subsystem of finapp-api:                 *)
(*   - the idempotency service (idempotency_service.py),                   *)
(*   - contribution posting (contributions_service.py, goals_router.py),   *)
(*   - payment posting (payments_service.py, obligations_router.py),       *)
(*   - goal create / close / reopen (goals_router.py, goals_repo.py) and   *)
(*     recurrence roll-forward (recurrence_service.py), in LifecycleSpec,  *)
(*   - the next-date function on its own (DateSpec) and the request        *)
(*     fingerprint on its own (HashSpec),                                  *)
(*   - replay across two active goals (ReplaySpec) and direct edits of     *)
(*     ledger entries (transactions_router.py), in EditSpec.               *)
(*                                                                         *)
(* Requests are coroutines that interleave only at store I/O (every        *)
(* `.execute()` call); one action is one such I/O together with the        *)
(* straight-line code that follows it up to the next I/O.                  *)
(*                                                                         *)
(* Values are taken at the types the service signatures declare: amounts   *)
(* are exact decimals (modelled as integer cents), ids are opaque.         *)
(***************************************************************************)
EXTENDS Integers, Sequences, FiniteSets, TLC

\* ------------------------------------------------------------------ bounds
MaxAmount == 2      \* largest amount of a request; also the target/total of the seeded goal/obligation
MaxFailures == 1    \* store failures injected in one behaviour

\* ---------------------------------------------------------------- universe
Req == {"r1", "r2"}                 \* request slots (concurrent coroutines)
Keys == {"k1", "k2"}                \* Idempotency-Key header values
Users == {"u1", "u2"}
Households == {"h1", "h2"}
NoReq == "none"

\* accounts table: id -> household_id (never written by the modelled code)
accounts == (1 :> "h1") @@ (2 :> "h2")

\* dates: a calendar date, or None; timestamps are kept to their date
Date(year, month, day) == [year |-> year, month |-> month, day |-> day]
NoDate == Date(0, 0, 0)
\* the date the store's "now()" and date.today() fall on
Today == Date(2024, 12, 31)

NoRow == [id |-> 0, table |-> "", parent_id |-> "", transaction_id |-> 0, amount |-> 0]
NoSnap == [found |-> FALSE, status |-> "", amount |-> 0, target |-> 0]
NoItem == [household_id |-> "", status |-> ""]

VARIABLES
    transactions,           \* table transactions: Seq of rows
    goal_contributions,     \* table goal_contributions: Seq of rows
    obligation_payments,    \* table obligation_payments: Seq of rows
    goals,                  \* table goals: id -> row
    obligations,            \* table obligations: id -> row
    idempotency_requests,   \* table idempotency_requests: Seq of rows
    cmd,                    \* per request: path parameters, header, principal and body
    retryOf,                \* per request: the earlier 5xx request this one repeats, or NoReq
    pc,                     \* per request: position of the coroutine
    snap,                   \* per request: local `goal` / `obligation` read at the start of the service
    tx,                     \* per request: local `transaction_id` (0 before the insert)
    link,                   \* per request: local `contribution_result.data[0]` / `payment_result.data[0]`
    updated,                \* per request: local `updated_goal` / `updated_obligation`, the row the amount update returned
    outcome,                \* per request: what the end caller receives
    failures                \* store failures injected so far

store == <<transactions, goal_contributions, obligation_payments, goals, obligations, idempotency_requests>>
locals == <<cmd, retryOf, pc, snap, tx, link, updated, outcome>>
vars == <<transactions, goal_contributions, obligation_payments, goals, obligations,
          idempotency_requests, cmd, retryOf, pc, snap, tx, link, updated, outcome, failures>>

\* ------------------------------------------------------- request fingerprint
\* Python orders dict keys by string comparison when sort_keys=True; the rank
\* of each field name of the two request models in that order.
KeyRank == [amount |-> 1, description |-> 2, from_account_id |-> 3,
            occurred_at |-> 4, source_account_id |-> 5]

\* request.dict(): the fields in declaration order; None is written 0
\* (occurred_at and description are left unset by the modelled clients).
GoalContributionCreate(amount, source_account_id) ==
    << <<"amount", amount>>, <<"source_account_id", source_account_id>>,
       <<"occurred_at", 0>>, <<"description", 0>> >>

ObligationPaymentCreate(amount, from_account_id) ==
    << <<"amount", amount>>, <<"from_account_id", from_account_id>>,
       <<"occurred_at", 0>>, <<"description", 0>> >>

RECURSIVE InsertSorted(_, _)
InsertSorted(pair, sorted) ==
    IF sorted = << >> THEN <<pair>>
    ELSE IF KeyRank[pair[1]] <= KeyRank[Head(sorted)[1]] THEN <<pair>> \o sorted
    ELSE <<Head(sorted)>> \o InsertSorted(pair, Tail(sorted))

\* variant: the items are written in insertion order
json_dumps_unsorted(body) == body

\* json.dumps(body, sort_keys=True, separators=(',', ':'))
RECURSIVE json_dumps_sorted(_)
json_dumps_sorted(body) ==
    IF body = << >> THEN << >>
    ELSE InsertSorted(Head(body), json_dumps_sorted(Tail(body)))

\* hashlib.sha256(...).hexdigest(): a digest, taken to be collision free
sha256(text) == <<"sha256", text>>

\* variant: only the keys enter the digest
hash_request_body_keys_only(body) ==
    sha256([i \in DOMAIN json_dumps_sorted(body) |-> json_dumps_sorted(body)[i][1]])

\* IdempotencyService._hash_request_body
hash_request_body(body) == sha256(json_dumps_sorted(body))

\* ------------------------------------------------------ idempotency service
\* variant: the lookup filters on the key alone
IdemSelect_key_only(table, key, user_id, household_id) ==
    SelectSeq(table, LAMBDA row: row.key = key)

\* select("*").eq("key", ..).eq("user_id", ..).eq("household_id", ..)
IdemSelect(table, key, user_id, household_id) ==
    SelectSeq(table, LAMBDA row: /\ row.key = key
                                 /\ row.user_id = user_id
                                 /\ row.household_id = household_id)

\* variant: any record under the tuple is replayed, the hashes are not compared
check_idempotency_no_hash_compare(table, key, user_id, household_id, request_body) ==
    LET data == IdemSelect(table, key, user_id, household_id)
    IN  IF data = << >>
        THEN [is_duplicate |-> FALSE, cached_response |-> NoRow, raised |-> ""]
        ELSE [is_duplicate |-> TRUE, cached_response |-> data[1].response_body,
              raised |-> ""]

\* IdempotencyService.check_idempotency: (is_duplicate, cached_response) or
\* the exception it raises
check_idempotency(table, key, user_id, household_id, request_body) ==
    LET request_hash == hash_request_body(request_body)
        data == IdemSelect(table, key, user_id, household_id)
    IN  IF data = << >>
        THEN [is_duplicate |-> FALSE, cached_response |-> NoRow, raised |-> ""]
        ELSE LET existing_request == data[1]
             IN  IF existing_request.request_hash # request_hash
                 THEN [is_duplicate |-> FALSE, cached_response |-> NoRow,
                       raised |-> "IdempotencyError"]
                 ELSE [is_duplicate |-> TRUE,
                       cached_response |-> existing_request.response_body,
                       raised |-> ""]

\* the row IdempotencyService.store_idempotency_result inserts
IdemRow(key, user_id, household_id, request_body, response_status, response_body) ==
    [key |-> key, user_id |-> user_id, household_id |-> household_id,
     request_hash |-> hash_request_body(request_body),
     response_status |-> response_status, response_body |-> response_body]

\* unique constraint of idempotency_requests on (key, user_id, household_id):
\* the insert of `row` is refused when the table holds a row of the same tuple
UniqueViolation(table, row) ==
    IdemSelect(table, row.key, row.user_id, row.household_id) # << >>

\* ------------------------------------------------------------- the requests
Cmd(kind, key, user, household, target, amount, account) ==
    [kind |-> kind, key |-> key, user |-> user, household |-> household,
     target |-> target, amount |-> amount, account |-> account]

\* request_body = request.dict()
RequestBody(c) ==
    IF c.kind = "contribution"
    THEN GoalContributionCreate(c.amount, c.account)
    ELSE ObligationPaymentCreate(c.amount, c.account)

ValidTarget(kind) == IF kind = "contribution" THEN "g1" ELSE "o1"
TargetIds(kind) == IF kind = "contribution" THEN {"g1", "g2", "g0"} ELSE {"o1", "o2", "o0"}
AccountOf(household) == IF household = "h1" THEN 1 ELSE 2

\* workloads: valid postings of one member of one household, ...
PostCmds ==
    { Cmd(kind, key, "u1", "h1", ValidTarget(kind), amount, 1) :
        kind \in {"contribution", "payment"}, key \in Keys, amount \in 1..MaxAmount }
\* ... contributions of several principals and households under shared keys, ...
IdemCmds ==
    { Cmd("contribution", key, user, household, "g1", amount, AccountOf(household)) :
        key \in Keys, user \in Users, household \in Households, amount \in 1..MaxAmount }
\* ... and requests that may violate a precondition of the posting
PreCmds ==
    UNION { { Cmd(kind, "k1", "u1", "h1", target, amount, account) :
                target \in TargetIds(kind), amount \in 0..MaxAmount, account \in {1, 2} } :
            kind \in {"contribution", "payment"} }

Workloads == [Req -> PostCmds] \cup [Req -> IdemCmds] \cup [Req -> PreCmds]

InitialGoals ==
    ("g1" :> [household_id |-> "h1", status |-> "active", current_amount |-> 0,
              target_amount |-> MaxAmount, completed_at |-> NoDate])
 @@ ("g2" :> [household_id |-> "h1", status |-> "completed", current_amount |-> MaxAmount,
              target_amount |-> MaxAmount, completed_at |-> Today])

InitialObligations ==
    ("o1" :> [household_id |-> "h1", status |-> "active", outstanding_amount |-> MaxAmount,
              total_amount |-> MaxAmount, completed_at |-> NoDate])
 @@ ("o2" :> [household_id |-> "h1", status |-> "completed", outstanding_amount |-> 0,
              total_amount |-> MaxAmount, completed_at |-> Today])

NoOutcome == [status |-> 0, error |-> "", detail |-> "", body |-> NoRow]

Init ==
    /\ transactions = << >>
    /\ goal_contributions = << >>
    /\ obligation_payments = << >>
    /\ goals = InitialGoals
    /\ obligations = InitialObligations
    /\ idempotency_requests = << >>
    /\ cmd \in Workloads
    /\ retryOf = [r \in Req |-> NoReq]
    /\ pc = [r \in Req |-> "idle"]
    /\ snap = [r \in Req |-> NoSnap]
    /\ tx = [r \in Req |-> 0]
    /\ link = [r \in Req |-> NoRow]
    /\ updated = [r \in Req |-> NoItem]
    /\ outcome = [r \in Req |-> NoOutcome]
    /\ failures = 0

\* the handler answers: a response model (200) or an exception mapped to a status
Respond(r, status, error, detail, body) ==
    /\ pc' = [pc EXCEPT ![r] = "done"]
    /\ outcome' = [outcome EXCEPT ![r] = [status |-> status, error |-> error,
                                          detail |-> detail, body |-> body]]

\* an exception of the service or of the store reaches the handler's
\* `except Exception`, which answers HTTPException(500)
Raise500(r, error) == Respond(r, 500, error, "", NoRow)

\* IdempotencyService.check_idempotency as called by the handlers
CheckResult(c) ==
    check_idempotency(idempotency_requests, c.key, c.user, c.household, RequestBody(c))

\* the client sends request r; it counts as a retry when an earlier identical
\* request has been answered 5xx
Start(r) ==
    /\ pc[r] = "idle"
    /\ pc' = [pc EXCEPT ![r] = "check"]
    /\ retryOf' = [retryOf EXCEPT ![r] =
                     IF \E q \in Req : pc[q] = "done" /\ outcome[q].status = 500 /\ cmd[q] = cmd[r]
                     THEN CHOOSE q \in Req : pc[q] = "done" /\ outcome[q].status = 500 /\ cmd[q] = cmd[r]
                     ELSE NoReq]
    /\ UNCHANGED <<store, cmd, snap, tx, link, outcome, failures, updated>>

\* variant: the handler calls the service although the check reported a duplicate
HandlerCheck_ignores_duplicate(r, kind, next) ==
    /\ pc[r] = "check"
    /\ cmd[r].kind = kind
    /\ LET c == cmd[r]
           res == CheckResult(c)
       IN  IF res.raised = "IdempotencyError"
           THEN Respond(r, 409, "IdempotencyError", c.key, NoRow)
           ELSE /\ pc' = [pc EXCEPT ![r] = next]
                /\ UNCHANGED outcome
    /\ UNCHANGED <<store, cmd, retryOf, snap, tx, link, failures, updated>>

\* variant: a duplicate is replayed only to a request for the same target
HandlerCheck_same_target(r, kind, next) ==
    /\ pc[r] = "check"
    /\ cmd[r].kind = kind
    /\ LET c == cmd[r]
           res == CheckResult(c)
       IN  IF res.raised = "IdempotencyError"
           THEN Respond(r, 409, "IdempotencyError", c.key, NoRow)
           ELSE IF res.is_duplicate /\ res.cached_response.parent_id = c.target
           THEN Respond(r, 200, "", "", res.cached_response)
           ELSE /\ pc' = [pc EXCEPT ![r] = next]
                /\ UNCHANGED outcome
    /\ UNCHANGED <<store, cmd, retryOf, snap, tx, link, failures, updated>>

\* handler, first part: check_idempotency and the is_duplicate branch
HandlerCheck(r, kind, next) ==
    /\ pc[r] = "check"
    /\ cmd[r].kind = kind
    /\ LET c == cmd[r]
           res == CheckResult(c)
       IN  IF res.raised = "IdempotencyError"
           THEN Respond(r, 409, "IdempotencyError", c.key, NoRow)
           ELSE IF res.is_duplicate
           THEN Respond(r, 200, "", "", res.cached_response)
           ELSE /\ pc' = [pc EXCEPT ![r] = next]
                /\ UNCHANGED outcome
    /\ UNCHANGED <<store, cmd, retryOf, snap, tx, link, failures, updated>>

\* variant: the record is written with an upsert, a record of the tuple is replaced
HandlerStore_upserts(r, at) ==
    /\ pc[r] = at
    /\ LET c == cmd[r]
           data == IdemRow(c.key, c.user, c.household, RequestBody(c), 201, link[r])
       IN  /\ idempotency_requests' =
                 IF UniqueViolation(idempotency_requests, data)
                 THEN [i \in DOMAIN idempotency_requests |->
                         IF /\ idempotency_requests[i].key = data.key
                            /\ idempotency_requests[i].user_id = data.user_id
                            /\ idempotency_requests[i].household_id = data.household_id
                         THEN data ELSE idempotency_requests[i]]
                 ELSE Append(idempotency_requests, data)
           /\ Respond(r, 200, "", "", link[r])
    /\ UNCHANGED <<transactions, goal_contributions, obligation_payments, goals, obligations,
                   cmd, retryOf, snap, tx, link, failures, updated>>

\* variant: the failure of the insert is swallowed and the response returned
HandlerStore_swallows_collision(r, at) ==
    /\ pc[r] = at
    /\ LET c == cmd[r]
           data == IdemRow(c.key, c.user, c.household, RequestBody(c), 201, link[r])
       IN  /\ idempotency_requests' =
                 IF UniqueViolation(idempotency_requests, data)
                 THEN idempotency_requests
                 ELSE Append(idempotency_requests, data)
           /\ Respond(r, 200, "", "", link[r])
    /\ UNCHANGED <<transactions, goal_contributions, obligation_payments, goals, obligations,
                   cmd, retryOf, snap, tx, link, failures, updated>>

\* handler, last part: store_idempotency_result and the response
HandlerStore(r, at) ==
    /\ pc[r] = at
    /\ LET c == cmd[r]
           data == IdemRow(c.key, c.user, c.household, RequestBody(c), 201, link[r])
       IN  IF UniqueViolation(idempotency_requests, data)
           THEN /\ Raise500(r, "UniqueViolation")
                /\ UNCHANGED idempotency_requests
           ELSE /\ idempotency_requests' = Append(idempotency_requests, data)
                /\ Respond(r, 200, "", "", link[r])
    /\ UNCHANGED <<transactions, goal_contributions, obligation_payments, goals, obligations,
                   cmd, retryOf, snap, tx, link, failures, updated>>

\* ------------------------------------------------ contribution posting
\* goals_router.create_contribution up to the call of the service
create_contribution_check(r) == HandlerCheck(r, "contribution", "c_get_goal")

\* ContributionsService.create_contribution: get_goal_by_id and the two
\* checks on the goal (the lookup is by id only)
contribution_get_goal(r) ==
    /\ pc[r] = "c_get_goal"
    /\ LET goal_id == cmd[r].target
       IN  IF goal_id \notin DOMAIN goals
           THEN /\ Raise500(r, "NotFoundError:Meta")
                /\ UNCHANGED snap
           ELSE IF goals[goal_id].status # "active"
           THEN /\ Raise500(r, "ValidationError:La meta debe estar activa")
                /\ UNCHANGED snap
           ELSE /\ snap' = [snap EXCEPT ![r] =
                              [found |-> TRUE, status |-> goals[goal_id].status,
                               amount |-> goals[goal_id].current_amount,
                               target |-> goals[goal_id].target_amount]]
                /\ pc' = [pc EXCEPT ![r] = "c_get_account"]
                /\ UNCHANGED outcome
    /\ UNCHANGED <<store, cmd, retryOf, tx, link, failures, updated>>

\* variant: the amount check rejects negative amounts only
contribution_get_account_allows_zero(r) ==
    /\ pc[r] = "c_get_account"
    /\ LET c == cmd[r]
           account_data == { a \in DOMAIN accounts : a = c.account /\ accounts[a] = c.household }
       IN  IF account_data = {}
           THEN Raise500(r, "NotFoundError:Cuenta")
           ELSE IF c.amount < 0
           THEN Raise500(r, "ValidationError:El monto del aporte debe ser positivo")
           ELSE /\ pc' = [pc EXCEPT ![r] = "c_insert_transaction"]
                /\ UNCHANGED outcome
    /\ UNCHANGED <<store, cmd, retryOf, snap, tx, link, failures, updated>>

\* the account lookup scoped to the household, then the amount check
contribution_get_account(r) ==
    /\ pc[r] = "c_get_account"
    /\ LET c == cmd[r]
           account_data == { a \in DOMAIN accounts : a = c.account /\ accounts[a] = c.household }
       IN  IF account_data = {}
           THEN Raise500(r, "NotFoundError:Cuenta")
           ELSE IF c.amount <= 0
           THEN Raise500(r, "ValidationError:El monto del aporte debe ser positivo")
           ELSE /\ pc' = [pc EXCEPT ![r] = "c_insert_transaction"]
                /\ UNCHANGED outcome
    /\ UNCHANGED <<store, cmd, retryOf, snap, tx, link, failures, updated>>

\* variant: the ledger entry of a contribution is written as an expense
contribution_insert_transaction_as_expense(r) ==
    /\ pc[r] = "c_insert_transaction"
    /\ LET c == cmd[r]
           transaction == [id |-> Len(transactions) + 1, household_id |-> c.household,
                           kind |-> "expense", amount |-> c.amount, account_id |-> c.account]
       IN  /\ transactions' = Append(transactions, transaction)
           /\ tx' = [tx EXCEPT ![r] = transaction.id]
    /\ pc' = [pc EXCEPT ![r] = "c_insert_link"]
    /\ UNCHANGED <<goal_contributions, obligation_payments, goals, obligations,
                   idempotency_requests, cmd, retryOf, snap, link, outcome, failures, updated>>

\* 1. insert the income transaction
contribution_insert_transaction(r) ==
    /\ pc[r] = "c_insert_transaction"
    /\ LET c == cmd[r]
           transaction == [id |-> Len(transactions) + 1, household_id |-> c.household,
                           kind |-> "income", amount |-> c.amount, account_id |-> c.account]
       IN  /\ transactions' = Append(transactions, transaction)
           /\ tx' = [tx EXCEPT ![r] = transaction.id]
    /\ pc' = [pc EXCEPT ![r] = "c_insert_link"]
    /\ UNCHANGED <<goal_contributions, obligation_payments, goals, obligations,
                   idempotency_requests, cmd, retryOf, snap, link, outcome, failures, updated>>

\* 2. insert the goal_contributions row
contribution_insert_link(r) ==
    /\ pc[r] = "c_insert_link"
    /\ LET c == cmd[r]
           contribution == [id |-> Len(goal_contributions) + 1, table |-> "goal_contributions",
                            parent_id |-> c.target, transaction_id |-> tx[r],
                            amount |-> c.amount]
       IN  /\ goal_contributions' = Append(goal_contributions, contribution)
           /\ link' = [link EXCEPT ![r] = contribution]
    /\ pc' = [pc EXCEPT ![r] = "c_update_amount"]
    /\ UNCHANGED <<transactions, obligation_payments, goals, obligations,
                   idempotency_requests, cmd, retryOf, snap, tx, outcome, failures, updated>>

\* variant: the auto-close test is strict
contribution_update_amount_strict(r) ==
    /\ pc[r] = "c_update_amount"
    /\ LET goal_id == cmd[r].target
           new_amount == snap[r].amount + cmd[r].amount
       IN  /\ goals' = [goals EXCEPT ![goal_id].current_amount = new_amount]
           /\ updated' = [updated EXCEPT ![r] = goals'[goal_id]]
           /\ pc' = [pc EXCEPT ![r] = IF new_amount > snap[r].target
                                      THEN "c_auto_close" ELSE "c_store"]
    /\ UNCHANGED <<transactions, goal_contributions, obligation_payments, obligations,
                   idempotency_requests, cmd, retryOf, snap, tx, link, outcome, failures>>

\* 3. write current_amount computed from the goal row read at the start;
\* the auto-close test uses the same local values
contribution_update_amount(r) ==
    /\ pc[r] = "c_update_amount"
    /\ LET goal_id == cmd[r].target
           new_amount == snap[r].amount + cmd[r].amount
       IN  /\ goals' = [goals EXCEPT ![goal_id].current_amount = new_amount]
           /\ updated' = [updated EXCEPT ![r] = goals'[goal_id]]
           /\ pc' = [pc EXCEPT ![r] = IF new_amount >= snap[r].target
                                      THEN "c_auto_close" ELSE "c_store"]
    /\ UNCHANGED <<transactions, goal_contributions, obligation_payments, obligations,
                   idempotency_requests, cmd, retryOf, snap, tx, link, outcome, failures>>

\* 4. the auto-close update
contribution_auto_close(r) ==
    /\ pc[r] = "c_auto_close"
    /\ goals' = [goals EXCEPT ![cmd[r].target].status = "completed",
                              ![cmd[r].target].completed_at = Today]
    /\ pc' = [pc EXCEPT ![r] = "c_store"]
    /\ UNCHANGED <<transactions, goal_contributions, obligation_payments, obligations,
                   idempotency_requests, cmd, retryOf, snap, tx, link, outcome, failures, updated>>

\* 5. the dict create_contribution returns once it has reached its end
contribution_result(r) ==
    [contribution |-> link[r], transaction |-> transactions[tx[r]], goal |-> updated[r],
     auto_closed |-> snap[r].amount + cmd[r].amount >= snap[r].target]

\* goals_router.create_contribution after the service has returned
create_contribution_store(r) == HandlerStore(r, "c_store")

\* ----------------------------------------------------- payment posting
create_payment_check(r) == HandlerCheck(r, "payment", "p_get_obligation")

payment_get_obligation(r) ==
    /\ pc[r] = "p_get_obligation"
    /\ LET obligation_id == cmd[r].target
       IN  IF obligation_id \notin DOMAIN obligations
           THEN /\ Raise500(r, "NotFoundError:Obligacion")
                /\ UNCHANGED snap
           ELSE IF obligations[obligation_id].status # "active"
           THEN /\ Raise500(r, "ValidationError:La obligacion debe estar activa")
                /\ UNCHANGED snap
           ELSE /\ snap' = [snap EXCEPT ![r] =
                              [found |-> TRUE, status |-> obligations[obligation_id].status,
                               amount |-> obligations[obligation_id].outstanding_amount,
                               target |-> obligations[obligation_id].total_amount]]
                /\ pc' = [pc EXCEPT ![r] = "p_get_account"]
                /\ UNCHANGED outcome
    /\ UNCHANGED <<store, cmd, retryOf, tx, link, failures, updated>>

\* variant: the amount is not compared with the outstanding amount
payment_get_account_allows_overpay(r) ==
    /\ pc[r] = "p_get_account"
    /\ LET c == cmd[r]
           account_data == { a \in DOMAIN accounts : a = c.account /\ accounts[a] = c.household }
       IN  IF account_data = {}
           THEN Raise500(r, "NotFoundError:Cuenta")
           ELSE IF c.amount <= 0
           THEN Raise500(r, "ValidationError:El monto del pago debe ser positivo")
           ELSE /\ pc' = [pc EXCEPT ![r] = "p_insert_transaction"]
                /\ UNCHANGED outcome
    /\ UNCHANGED <<store, cmd, retryOf, snap, tx, link, failures, updated>>

\* the account lookup scoped to the household, then the two amount checks
payment_get_account(r) ==
    /\ pc[r] = "p_get_account"
    /\ LET c == cmd[r]
           account_data == { a \in DOMAIN accounts : a = c.account /\ accounts[a] = c.household }
           outstanding_amount == snap[r].amount
       IN  IF account_data = {}
           THEN Raise500(r, "NotFoundError:Cuenta")
           ELSE IF c.amount <= 0
           THEN Raise500(r, "ValidationError:El monto del pago debe ser positivo")
           ELSE IF c.amount > outstanding_amount
           THEN Raise500(r, "ValidationError:El monto del pago no puede exceder el monto pendiente")
           ELSE /\ pc' = [pc EXCEPT ![r] = "p_insert_transaction"]
                /\ UNCHANGED outcome
    /\ UNCHANGED <<store, cmd, retryOf, snap, tx, link, failures, updated>>

payment_insert_transaction(r) ==
    /\ pc[r] = "p_insert_transaction"
    /\ LET c == cmd[r]
           transaction == [id |-> Len(transactions) + 1, household_id |-> c.household,
                           kind |-> "expense", amount |-> c.amount, account_id |-> c.account]
       IN  /\ transactions' = Append(transactions, transaction)
           /\ tx' = [tx EXCEPT ![r] = transaction.id]
    /\ pc' = [pc EXCEPT ![r] = "p_insert_link"]
    /\ UNCHANGED <<goal_contributions, obligation_payments, goals, obligations,
                   idempotency_requests, cmd, retryOf, snap, link, outcome, failures, updated>>

payment_insert_link(r) ==
    /\ pc[r] = "p_insert_link"
    /\ LET c == cmd[r]
           payment == [id |-> Len(obligation_payments) + 1, table |-> "obligation_payments",
                       parent_id |-> c.target, transaction_id |-> tx[r], amount |-> c.amount]
       IN  /\ obligation_payments' = Append(obligation_payments, payment)
           /\ link' = [link EXCEPT ![r] = payment]
    /\ pc' = [pc EXCEPT ![r] = "p_update_amount"]
    /\ UNCHANGED <<transactions, goal_contributions, goals, obligations,
                   idempotency_requests, cmd, retryOf, snap, tx, outcome, failures, updated>>

\* variant: the auto-close test is strict
payment_update_amount_strict(r) ==
    /\ pc[r] = "p_update_amount"
    /\ LET obligation_id == cmd[r].target
           new_outstanding == snap[r].amount - cmd[r].amount
       IN  /\ obligations' = [obligations EXCEPT ![obligation_id].outstanding_amount = new_outstanding]
           /\ updated' = [updated EXCEPT ![r] = obligations'[obligation_id]]
           /\ pc' = [pc EXCEPT ![r] = IF new_outstanding < 0
                                      THEN "p_auto_close" ELSE "p_store"]
    /\ UNCHANGED <<transactions, goal_contributions, obligation_payments, goals,
                   idempotency_requests, cmd, retryOf, snap, tx, link, outcome, failures>>

\* 3. write outstanding_amount computed from the obligation row read at the
\* start; the auto-close test uses the same local value
payment_update_amount(r) ==
    /\ pc[r] = "p_update_amount"
    /\ LET obligation_id == cmd[r].target
           new_outstanding == snap[r].amount - cmd[r].amount
       IN  /\ obligations' = [obligations EXCEPT ![obligation_id].outstanding_amount = new_outstanding]
           /\ updated' = [updated EXCEPT ![r] = obligations'[obligation_id]]
           /\ pc' = [pc EXCEPT ![r] = IF new_outstanding <= 0
                                      THEN "p_auto_close" ELSE "p_store"]
    /\ UNCHANGED <<transactions, goal_contributions, obligation_payments, goals,
                   idempotency_requests, cmd, retryOf, snap, tx, link, outcome, failures>>

payment_auto_close(r) ==
    /\ pc[r] = "p_auto_close"
    /\ obligations' = [obligations EXCEPT ![cmd[r].target].status = "completed",
                                          ![cmd[r].target].completed_at = Today]
    /\ pc' = [pc EXCEPT ![r] = "p_store"]
    /\ UNCHANGED <<transactions, goal_contributions, obligation_payments, goals,
                   idempotency_requests, cmd, retryOf, snap, tx, link, outcome, failures, updated>>

\* 5. the dict create_payment returns once it has reached its end
payment_result(r) ==
    [payment |-> link[r], transaction |-> transactions[tx[r]], obligation |-> updated[r],
     auto_closed |-> snap[r].amount - cmd[r].amount <= 0]

create_payment_store(r) == HandlerStore(r, "p_store")

\* ------------------------------------------------------------ store failures
\* positions at which the coroutine is about to call the store
IOPoints == {"check", "c_get_goal", "c_get_account", "c_insert_transaction", "c_insert_link",
             "c_update_amount", "c_auto_close", "c_store",
             "p_get_obligation", "p_get_account", "p_insert_transaction", "p_insert_link",
             "p_update_amount", "p_auto_close", "p_store", "r_insert", "n_insert"}

\* the store call raises instead of taking effect; the services log and
\* re-raise, the handler answers 500; nothing is undone
store_failure(r) ==
    /\ pc[r] \in IOPoints
    /\ failures < MaxFailures
    /\ failures' = failures + 1
    /\ Raise500(r, "StoreUnavailable")
    /\ UNCHANGED <<store, cmd, retryOf, snap, tx, link, updated>>

Next ==
    \E r \in Req :
        \/ Start(r)
        \/ create_contribution_check(r)
        \/ contribution_get_goal(r)
        \/ contribution_get_account(r)
        \/ contribution_insert_transaction(r)
        \/ contribution_insert_link(r)
        \/ contribution_update_amount(r)
        \/ contribution_auto_close(r)
        \/ create_contribution_store(r)
        \/ create_payment_check(r)
        \/ payment_get_obligation(r)
        \/ payment_get_account(r)
        \/ payment_insert_transaction(r)
        \/ payment_insert_link(r)
        \/ payment_update_amount(r)
        \/ payment_auto_close(r)
        \/ create_payment_store(r)
        \/ store_failure(r)

Spec == Init /\ [][Next]_vars

\* ====================================================================
\* Goal and obligation lifecycle: create, close, reopen (goals_router.py,
\* goals_repo.py) and recurrence roll-forward (recurrence_service.py),
\* running beside contribution postings
\* ====================================================================
\* ---------------------------------------------------------------- calendar
IsLeap(year) == (year % 4 = 0 /\ year % 100 # 0) \/ year % 400 = 0

DaysInMonth(year, month) ==
    IF month \in {4, 6, 9, 11} THEN 30
    ELSE IF month = 2 THEN (IF IsLeap(year) THEN 29 ELSE 28)
    ELSE 31

\* the first day of the month after that of d
NextMonthStart(d) ==
    IF d.month < 12 THEN Date(d.year, d.month + 1, 1) ELSE Date(d.year + 1, 1, 1)

\* date + timedelta(days=n), n >= 0, a month at a time
RECURSIVE timedelta_add(_, _)
timedelta_add(d, n) ==
    IF d.day + n <= DaysInMonth(d.year, d.month)
    THEN Date(d.year, d.month, d.day + n)
    ELSE timedelta_add(NextMonthStart(d), n - (DaysInMonth(d.year, d.month) - d.day + 1))

\* date.replace(year=.., month=..): ValueError when the day does not exist
date_replace(d, year, month) ==
    IF d.day <= DaysInMonth(year, month)
    THEN [raised |-> "", date |-> Date(year, month, d.day)]
    ELSE [raised |-> "ValueError", date |-> NoDate]

RecurrencePattern == {"daily", "weekly", "monthly", "quarterly", "yearly"}
None == ""

\* variant: a pattern that is not recognised is treated as monthly
calculate_next_date_defaults_to_monthly(current_date, pattern, completed_at) ==
    LET base_date == IF completed_at # NoDate THEN completed_at ELSE current_date
    IN  IF pattern = "daily" THEN [raised |-> "", date |-> timedelta_add(base_date, 1)]
        ELSE IF pattern = "weekly" THEN [raised |-> "", date |-> timedelta_add(base_date, 7)]
        ELSE IF pattern = "quarterly" THEN [raised |-> "", date |-> timedelta_add(base_date, 90)]
        ELSE IF pattern = "yearly"
        THEN date_replace(base_date, base_date.year + 1, base_date.month)
        ELSE IF base_date.month = 12
             THEN date_replace(base_date, base_date.year + 1, 1)
             ELSE date_replace(base_date, base_date.year, base_date.month + 1)

\* variant: a monthly step from December stays in the same year
calculate_next_date_december_same_year(current_date, pattern, completed_at) ==
    LET base_date == IF completed_at # NoDate THEN completed_at ELSE current_date
    IN  IF pattern = "daily" THEN [raised |-> "", date |-> timedelta_add(base_date, 1)]
        ELSE IF pattern = "weekly" THEN [raised |-> "", date |-> timedelta_add(base_date, 7)]
        ELSE IF pattern = "monthly"
        THEN IF base_date.month = 12
             THEN date_replace(base_date, base_date.year, 1)
             ELSE date_replace(base_date, base_date.year, base_date.month + 1)
        ELSE IF pattern = "quarterly" THEN [raised |-> "", date |-> timedelta_add(base_date, 90)]
        ELSE IF pattern = "yearly"
        THEN date_replace(base_date, base_date.year + 1, base_date.month)
        ELSE [raised |-> "ValidationError:Patron de recurrencia no valido", date |-> NoDate]

\* RecurrenceService._calculate_next_date: the date, or the exception raised
calculate_next_date(current_date, pattern, completed_at) ==
    LET base_date == IF completed_at # NoDate THEN completed_at ELSE current_date
    IN  IF pattern = "daily" THEN [raised |-> "", date |-> timedelta_add(base_date, 1)]
        ELSE IF pattern = "weekly" THEN [raised |-> "", date |-> timedelta_add(base_date, 7)]
        ELSE IF pattern = "monthly"
        THEN IF base_date.month = 12
             THEN date_replace(base_date, base_date.year + 1, 1)
             ELSE date_replace(base_date, base_date.year, base_date.month + 1)
        ELSE IF pattern = "quarterly" THEN [raised |-> "", date |-> timedelta_add(base_date, 90)]
        ELSE IF pattern = "yearly"
        THEN date_replace(base_date, base_date.year + 1, base_date.month)
        ELSE [raised |-> "ValidationError:Patron de recurrencia no valido", date |-> NoDate]

\* ------------------------------------------------------------ seeded rows
\* what the rows present at the start hold in the columns the recurrence
\* service reads: is_recurring, recurrence_pattern (the column is free text,
\* the service has a branch for a pattern it does not know), the date the
\* completed items were completed on, and the target / due date
SeedDates == {Date(2024, 1, 31), Date(2024, 2, 29), Today}
LifeSeeds ==
    { [is_recurring |-> rec[1], recurrence_pattern |-> rec[2], completed_at |-> c,
       date |-> Date(2024, 3, 15)] :
        rec \in {<<FALSE, None>>, <<FALSE, "monthly">>, <<TRUE, None>>, <<TRUE, "biweekly">>}
                \cup { <<TRUE, pattern>> : pattern \in RecurrencePattern },
        c \in SeedDates }

SeededGoals(seed) ==
    [g \in DOMAIN InitialGoals |->
        [household_id |-> InitialGoals[g].household_id, name |-> "n1",
         target_amount |-> InitialGoals[g].target_amount,
         current_amount |-> InitialGoals[g].current_amount,
         target_date |-> seed.date, description |-> None, priority |-> "medium",
         is_recurring |-> seed.is_recurring, recurrence_pattern |-> seed.recurrence_pattern,
         status |-> InitialGoals[g].status,
         completed_at |-> IF InitialGoals[g].status = "completed"
                          THEN seed.completed_at ELSE NoDate]]

SeededObligations(seed) ==
    [o \in DOMAIN InitialObligations |->
        [household_id |-> InitialObligations[o].household_id, name |-> "n1",
         total_amount |-> InitialObligations[o].total_amount,
         outstanding_amount |-> InitialObligations[o].outstanding_amount,
         due_date |-> seed.date, description |-> None, priority |-> "medium",
         creditor |-> None,
         is_recurring |-> seed.is_recurring, recurrence_pattern |-> seed.recurrence_pattern,
         status |-> InitialObligations[o].status,
         completed_at |-> IF InitialObligations[o].status = "completed"
                          THEN seed.completed_at ELSE NoDate]]

\* ids the store gives to inserted goals / obligations, in order
GoalIds == <<"g3", "g4", "g5">>
ObligationIds == <<"o3", "o4", "o5">>
NewGoalId == GoalIds[Cardinality(DOMAIN goals) - Cardinality(DOMAIN InitialGoals) + 1]
NewObligationId ==
    ObligationIds[Cardinality(DOMAIN obligations) - Cardinality(DOMAIN InitialObligations) + 1]
\* ------------------------------------------------------------ the requests
\* body of POST /goals
GoalCreate(target_amount, current_amount) ==
    [name |-> "n2", target_amount |-> target_amount, current_amount |-> current_amount,
     target_date |-> NoDate, description |-> None, priority |-> "medium",
     is_recurring |-> FALSE, recurrence_pattern |-> None]

LifeCmds ==
    { Cmd("contribution", "k1", "u1", "h1", "g1", amount, 1) : amount \in 1..MaxAmount }
    \cup { Cmd(kind, None, "u1", "h1", goal_id, 0, 0) :
             kind \in {"close_goal", "reopen_goal", "rollover_goal"},
             goal_id \in TargetIds("contribution") }
    \cup { Cmd("renew_obligation", None, "u1", "h1", obligation_id, 0, 0) :
             obligation_id \in TargetIds("payment") }
    \cup { [kind |-> "create_goal", key |-> None, user |-> "u1", household |-> "h1",
            target |-> None, amount |-> 0, account |-> 0,
            body |-> GoalCreate(target_amount, current_amount)] :
             target_amount \in 1..MaxAmount, current_amount \in {0, MaxAmount} }

LifeInit ==
    /\ transactions = << >>
    /\ goal_contributions = << >>
    /\ obligation_payments = << >>
    /\ \E seed \in LifeSeeds :
         /\ goals = SeededGoals(seed)
         /\ obligations = SeededObligations(seed)
    /\ idempotency_requests = << >>
    /\ cmd \in [Req -> LifeCmds]
    /\ retryOf = [r \in Req |-> NoReq]
    /\ pc = [r \in Req |-> "idle"]
    /\ snap = [r \in Req |-> NoSnap]
    /\ tx = [r \in Req |-> 0]
    /\ link = [r \in Req |-> NoRow]
    /\ updated = [r \in Req |-> NoItem]
    /\ outcome = [r \in Req |-> NoOutcome]
    /\ failures = 0

\* --------------------------------------------------- create, close, reopen
\* goals_router.create_goal -> GoalsRepository.create_goal: one insert
create_goal(r) ==
    /\ pc[r] = "check"
    /\ cmd[r].kind = "create_goal"
    /\ LET request == cmd[r].body
           data == [household_id |-> cmd[r].household, name |-> request.name,
                    target_amount |-> request.target_amount,
                    current_amount |-> request.current_amount,
                    target_date |-> request.target_date,
                    description |-> request.description, priority |-> request.priority,
                    is_recurring |-> request.is_recurring,
                    recurrence_pattern |-> request.recurrence_pattern,
                    status |-> "active", completed_at |-> NoDate]
       IN  /\ goals' = (NewGoalId :> data) @@ goals
           /\ Respond(r, 200, "", "", data)
    /\ UNCHANGED <<transactions, goal_contributions, obligation_payments, obligations,
                   idempotency_requests, cmd, retryOf, snap, tx, link, failures, updated>>

\* GoalsRepository.update_goal_status: the table after the update by id
update_goal_status(table, goal_id, status) ==
    [table EXCEPT ![goal_id].status = status,
                  ![goal_id].completed_at =
                      IF status = "completed" THEN Today
                      ELSE IF status = "active" THEN NoDate
                      ELSE table[goal_id].completed_at]

\* the handlers of POST /goals/{goal_id}:close and :reopen
GoalStatusHandler(r, kind, status) ==
    /\ pc[r] = "check"
    /\ cmd[r].kind = kind
    /\ LET goal_id == cmd[r].target
       IN  IF goal_id \notin DOMAIN goals
           THEN /\ Respond(r, 404, "NotFoundError:Meta", "", NoRow)
                /\ UNCHANGED goals
           ELSE /\ goals' = update_goal_status(goals, goal_id, status)
                /\ Respond(r, 200, "", "", goals'[goal_id])
    /\ UNCHANGED <<transactions, goal_contributions, obligation_payments, obligations,
                   idempotency_requests, cmd, retryOf, snap, tx, link, failures, updated>>

close_goal(r) == GoalStatusHandler(r, "close_goal", "completed")
reopen_goal(r) == GoalStatusHandler(r, "reopen_goal", "active")

\* ------------------------------------------------------------ roll-forward
\* RecurrenceService.rollover_goal / renew_obligation up to the insert: the
\* read by id, the four checks and the next date; every exception reaches
\* the handler's `except Exception` and is answered 500
RollForwardRead(r, kind, table, date_field, next, errors) ==
    /\ pc[r] = "check"
    /\ cmd[r].kind = kind
    /\ LET id == cmd[r].target
       IN  IF id \notin DOMAIN table
           THEN Raise500(r, errors.not_found) /\ UNCHANGED snap
           ELSE LET item == table[id]
                    current_date == IF item[date_field] # NoDate
                                    THEN item[date_field] ELSE Today
                    next_date == calculate_next_date(current_date, item.recurrence_pattern,
                                                     item.completed_at)
                IN  IF ~ item.is_recurring
                    THEN Raise500(r, errors.not_recurring) /\ UNCHANGED snap
                    ELSE IF item.status # "completed"
                    THEN Raise500(r, errors.not_completed) /\ UNCHANGED snap
                    ELSE IF item.recurrence_pattern = None
                    THEN Raise500(r, errors.no_pattern) /\ UNCHANGED snap
                    ELSE IF next_date.raised # ""
                    THEN Raise500(r, next_date.raised) /\ UNCHANGED snap
                    ELSE /\ snap' = [snap EXCEPT ![r] = item]
                         /\ pc' = [pc EXCEPT ![r] = next]
                         /\ UNCHANGED outcome
    /\ UNCHANGED <<store, cmd, retryOf, tx, link, failures, updated>>

\* variant: a goal that already has an active successor is not rolled again
rollover_goal_read_once(r) ==
    IF /\ cmd[r].target \in DOMAIN goals
       /\ \E id \in DOMAIN goals \ DOMAIN InitialGoals :
             /\ goals[id].status = "active"
             /\ goals[id].is_recurring
             /\ goals[id].name = goals[cmd[r].target].name
    THEN /\ pc[r] = "check"
         /\ cmd[r].kind = "rollover_goal"
         /\ Raise500(r, "ValidationError:La meta ya tiene una sucesora")
         /\ UNCHANGED <<store, cmd, retryOf, snap, tx, link, failures, updated>>
    ELSE RollForwardRead(r, "rollover_goal", goals, "target_date", "r_insert",
        [not_found |-> "ValidationError:Meta no encontrada",
         not_recurring |-> "ValidationError:La meta no es recurrente",
         not_completed |-> "ValidationError:La meta debe estar completada para hacer rollover",
         no_pattern |-> "ValidationError:La meta recurrente debe tener un patron de recurrencia"])

rollover_goal_read(r) ==
    RollForwardRead(r, "rollover_goal", goals, "target_date", "r_insert",
        [not_found |-> "ValidationError:Meta no encontrada",
         not_recurring |-> "ValidationError:La meta no es recurrente",
         not_completed |-> "ValidationError:La meta debe estar completada para hacer rollover",
         no_pattern |-> "ValidationError:La meta recurrente debe tener un patron de recurrencia"])

\* variant: the new goal keeps the current_amount of the source
rollover_goal_insert_keeps_progress(r) ==
    /\ pc[r] = "r_insert"
    /\ LET goal == snap[r]
           next_target_date ==
               calculate_next_date(IF goal.target_date # NoDate THEN goal.target_date ELSE Today,
                                   goal.recurrence_pattern, goal.completed_at).date
           new_goal_data == [household_id |-> goal.household_id, name |-> goal.name,
                             target_amount |-> goal.target_amount,
                             current_amount |-> goal.current_amount,
                             target_date |-> next_target_date,
                             description |-> goal.description, priority |-> goal.priority,
                             is_recurring |-> TRUE,
                             recurrence_pattern |-> goal.recurrence_pattern,
                             status |-> "active", completed_at |-> NoDate]
       IN  /\ goals' = (NewGoalId :> new_goal_data) @@ goals
           /\ Respond(r, 200, "", "", new_goal_data)
    /\ UNCHANGED <<transactions, goal_contributions, obligation_payments, obligations,
                   idempotency_requests, cmd, retryOf, snap, tx, link, failures, updated>>

\* the insert of the new goal and the handler's response
rollover_goal_insert(r) ==
    /\ pc[r] = "r_insert"
    /\ LET goal == snap[r]
           next_target_date ==
               calculate_next_date(IF goal.target_date # NoDate THEN goal.target_date ELSE Today,
                                   goal.recurrence_pattern, goal.completed_at).date
           new_goal_data == [household_id |-> goal.household_id, name |-> goal.name,
                             target_amount |-> goal.target_amount, current_amount |-> 0,
                             target_date |-> next_target_date,
                             description |-> goal.description, priority |-> goal.priority,
                             is_recurring |-> TRUE,
                             recurrence_pattern |-> goal.recurrence_pattern,
                             status |-> "active", completed_at |-> NoDate]
       IN  /\ goals' = (NewGoalId :> new_goal_data) @@ goals
           /\ Respond(r, 200, "", "", new_goal_data)
    /\ UNCHANGED <<transactions, goal_contributions, obligation_payments, obligations,
                   idempotency_requests, cmd, retryOf, snap, tx, link, failures, updated>>

renew_obligation_read(r) ==
    RollForwardRead(r, "renew_obligation", obligations, "due_date", "n_insert",
        [not_found |-> "ValidationError:Obligacion no encontrada",
         not_recurring |-> "ValidationError:La obligacion no es recurrente",
         not_completed |-> "ValidationError:La obligacion debe estar completada para renovar",
         no_pattern |-> "ValidationError:La obligacion recurrente debe tener un patron de recurrencia"])

renew_obligation_insert(r) ==
    /\ pc[r] = "n_insert"
    /\ LET obligation == snap[r]
           next_due_date ==
               calculate_next_date(IF obligation.due_date # NoDate
                                   THEN obligation.due_date ELSE Today,
                                   obligation.recurrence_pattern, obligation.completed_at).date
           new_obligation_data ==
               [household_id |-> obligation.household_id, name |-> obligation.name,
                total_amount |-> obligation.total_amount,
                outstanding_amount |-> obligation.total_amount,
                due_date |-> next_due_date,
                description |-> obligation.description, priority |-> obligation.priority,
                creditor |-> obligation.creditor, is_recurring |-> TRUE,
                recurrence_pattern |-> obligation.recurrence_pattern,
                status |-> "active", completed_at |-> NoDate]
       IN  /\ obligations' = (NewObligationId :> new_obligation_data) @@ obligations
           /\ Respond(r, 200, "", "", new_obligation_data)
    /\ UNCHANGED <<transactions, goal_contributions, obligation_payments, goals,
                   idempotency_requests, cmd, retryOf, snap, tx, link, failures, updated>>

LifeNext ==
    \E r \in Req :
        \/ Start(r)
        \/ create_contribution_check(r)
        \/ contribution_get_goal(r)
        \/ contribution_get_account(r)
        \/ contribution_insert_transaction(r)
        \/ contribution_insert_link(r)
        \/ contribution_update_amount(r)
        \/ contribution_auto_close(r)
        \/ create_contribution_store(r)
        \/ create_goal(r)
        \/ close_goal(r)
        \/ reopen_goal(r)
        \/ rollover_goal_read(r)
        \/ rollover_goal_insert(r)
        \/ renew_obligation_read(r)
        \/ renew_obligation_insert(r)
        \/ store_failure(r)

LifecycleSpec == LifeInit /\ [][LifeNext]_vars

\* ====================================================================
\* The next-date computation on its own: the call made by rollover_goal /
\* renew_obligation, on inputs drawn from a set of dates and patterns
\* ====================================================================
InputDates == {Date(2023, 12, 15), Date(2024, 1, 31), Date(2024, 2, 29),
               Date(2024, 3, 15), Date(2024, 12, 31)}
InputPatterns == RecurrencePattern \cup {"biweekly"}

\* what the roll-forward reads from the item: its target / due date and its
\* completed_at, each possibly None, and its pattern
DateInputs ==
    { [kind |-> "next_date", date |-> d, recurrence_pattern |-> pattern, completed_at |-> c] :
        d \in InputDates \cup {NoDate}, pattern \in InputPatterns,
        c \in InputDates \cup {NoDate} }

\* the call of _calculate_next_date as rollover_goal / renew_obligation make it
next_date_call(date, pattern, completed_at) ==
    calculate_next_date(IF date # NoDate THEN date ELSE Today, pattern, completed_at)

DateInit ==
    /\ transactions = << >>
    /\ goal_contributions = << >>
    /\ obligation_payments = << >>
    /\ goals = InitialGoals
    /\ obligations = InitialObligations
    /\ idempotency_requests = << >>
    /\ cmd \in [Req -> DateInputs]
    /\ retryOf = [r \in Req |-> NoReq]
    /\ pc = [r \in Req |-> "idle"]
    /\ snap = [r \in Req |-> NoSnap]
    /\ tx = [r \in Req |-> 0]
    /\ link = [r \in Req |-> NoRow]
    /\ updated = [r \in Req |-> NoItem]
    /\ outcome = [r \in Req |-> NoOutcome]
    /\ failures = 0

\* the computation is applied to the inputs of slot r; the result (the date
\* or the exception) is kept in outcome
compute_next_date(r) ==
    /\ pc[r] = "idle"
    /\ LET res == next_date_call(cmd[r].date, cmd[r].recurrence_pattern, cmd[r].completed_at)
       IN  Respond(r, 0, res.raised, "", res.date)
    /\ UNCHANGED <<store, cmd, retryOf, snap, tx, link, failures, updated>>

DateNext == \E r \in Req : compute_next_date(r)

DateSpec == DateInit /\ [][DateNext]_vars

\* ====================================================================
\* The request fingerprint on its own: _hash_request_body applied to
\* dicts that hold the same keys in every insertion order
\* ====================================================================
HashKeys == <<"amount", "description", "source_account_id">>
\* the insertion orders of three keys
KeyOrders == { o \in [1..3 -> 1..3] : \A i \in 1..3 : \E j \in 1..3 : o[j] = i }
\* a dict: its items in insertion order
HashBodies ==
    { [i \in 1..3 |-> <<HashKeys[o[i]], value[o[i]]>>] :
        o \in KeyOrders,
        value \in [1..3 -> 0..MaxAmount] }

HashInit ==
    /\ transactions = << >>
    /\ goal_contributions = << >>
    /\ obligation_payments = << >>
    /\ goals = InitialGoals
    /\ obligations = InitialObligations
    /\ idempotency_requests = << >>
    /\ cmd \in [Req -> { [kind |-> "hash", body |-> body] : body \in HashBodies }]
    /\ retryOf = [r \in Req |-> NoReq]
    /\ pc = [r \in Req |-> "idle"]
    /\ snap = [r \in Req |-> NoSnap]
    /\ tx = [r \in Req |-> 0]
    /\ link = [r \in Req |-> NoRow]
    /\ updated = [r \in Req |-> NoItem]
    /\ outcome = [r \in Req |-> NoOutcome]
    /\ failures = 0

\* _hash_request_body is applied to the dict of slot r
compute_hash(r) ==
    /\ pc[r] = "idle"
    /\ Respond(r, 0, "", "", hash_request_body(cmd[r].body))
    /\ UNCHANGED <<store, cmd, retryOf, snap, tx, link, failures, updated>>

HashNext == \E r \in Req : compute_hash(r)

HashSpec == HashInit /\ [][HashNext]_vars

\* ====================================================================
\* Contributions of one principal to two active goals of one household
\* ====================================================================
TwoActiveGoals ==
    ("g1" :> [household_id |-> "h1", status |-> "active", current_amount |-> 0,
              target_amount |-> MaxAmount, completed_at |-> NoDate])
 @@ ("g2" :> [household_id |-> "h1", status |-> "active", current_amount |-> 0,
              target_amount |-> MaxAmount, completed_at |-> NoDate])

\* POST /goals/{goal_id}/contributions: goal_id is a path parameter, the
\* body is GoalContributionCreate
ReplayCmds ==
    { Cmd("contribution", key, "u1", "h1", goal_id, amount, 1) :
        key \in Keys, goal_id \in {"g1", "g2"}, amount \in 1..MaxAmount }

ReplayInit ==
    /\ transactions = << >>
    /\ goal_contributions = << >>
    /\ obligation_payments = << >>
    /\ goals = TwoActiveGoals
    /\ obligations = InitialObligations
    /\ idempotency_requests = << >>
    /\ cmd \in [Req -> ReplayCmds]
    /\ retryOf = [r \in Req |-> NoReq]
    /\ pc = [r \in Req |-> "idle"]
    /\ snap = [r \in Req |-> NoSnap]
    /\ tx = [r \in Req |-> 0]
    /\ link = [r \in Req |-> NoRow]
    /\ updated = [r \in Req |-> NoItem]
    /\ outcome = [r \in Req |-> NoOutcome]
    /\ failures = 0

ReplayNext ==
    \E r \in Req :
        \/ Start(r)
        \/ create_contribution_check(r)
        \/ contribution_get_goal(r)
        \/ contribution_get_account(r)
        \/ contribution_insert_transaction(r)
        \/ contribution_insert_link(r)
        \/ contribution_update_amount(r)
        \/ contribution_auto_close(r)
        \/ create_contribution_store(r)
        \/ store_failure(r)

ReplaySpec == ReplayInit /\ [][ReplayNext]_vars

\* ====================================================================
\* Direct edits of ledger entries next to the postings that create them
\* ====================================================================
\* TransactionUpdate: amount is optional, << >> stands for None
TransactionUpdate(amount) == [amount |-> amount]

\* PATCH /transactions/{transaction_id} next to postings to g1 and o1
EditCmds ==
    { Cmd(kind, "k1", "u1", "h1", ValidTarget(kind), amount, 1) :
        kind \in {"contribution", "payment"}, amount \in 1..MaxAmount }
    \cup { [kind |-> "update_transaction", key |-> None, user |-> "u1", household |-> "h1",
            target |-> None, amount |-> 0, account |-> 0,
            transaction_id |-> transaction_id, body |-> TransactionUpdate(amount)] :
             transaction_id \in 1..2,
             amount \in {<< >>} \cup { <<a>> : a \in 0..MaxAmount } }

EditInit ==
    /\ transactions = << >>
    /\ goal_contributions = << >>
    /\ obligation_payments = << >>
    /\ goals = InitialGoals
    /\ obligations = InitialObligations
    /\ idempotency_requests = << >>
    /\ cmd \in [Req -> EditCmds]
    /\ retryOf = [r \in Req |-> NoReq]
    /\ pc = [r \in Req |-> "idle"]
    /\ snap = [r \in Req |-> NoSnap]
    /\ tx = [r \in Req |-> 0]
    /\ link = [r \in Req |-> NoRow]
    /\ updated = [r \in Req |-> NoItem]
    /\ outcome = [r \in Req |-> NoOutcome]
    /\ failures = 0

\* TransactionsRepository.update_transaction: the columns given in the
\* request, written to the row of that id and to no other table
update_transaction_data(row, body) ==
    [row EXCEPT !.amount = IF body.amount = << >> THEN @ ELSE body.amount[1]]

\* variant: the edit is carried over to the link rows of the ledger entry
update_transaction_with_links(r) ==
    /\ pc[r] = "check"
    /\ cmd[r].kind = "update_transaction"
    /\ LET transaction_id == cmd[r].transaction_id
       IN  IF transaction_id \notin DOMAIN transactions
           THEN /\ Respond(r, 404, "NotFoundError:Transacción", "", NoRow)
                /\ UNCHANGED <<transactions, goal_contributions>>
           ELSE /\ transactions' =
                     [transactions EXCEPT ![transaction_id] =
                          update_transaction_data(@, cmd[r].body)]
                /\ goal_contributions' =
                     [i \in DOMAIN goal_contributions |->
                         IF goal_contributions[i].transaction_id = transaction_id
                         THEN update_transaction_data(goal_contributions[i], cmd[r].body)
                         ELSE goal_contributions[i]]
                /\ Respond(r, 200, "", "", transactions'[transaction_id])
    /\ UNCHANGED <<obligation_payments, goals, obligations,
                   idempotency_requests, cmd, retryOf, snap, tx, link, failures, updated>>

\* transactions_router.update_transaction
update_transaction(r) ==
    /\ pc[r] = "check"
    /\ cmd[r].kind = "update_transaction"
    /\ LET transaction_id == cmd[r].transaction_id
       IN  IF transaction_id \notin DOMAIN transactions
           THEN /\ Respond(r, 404, "NotFoundError:Transacción", "", NoRow)
                /\ UNCHANGED transactions
           ELSE /\ transactions' =
                     [transactions EXCEPT ![transaction_id] =
                          update_transaction_data(@, cmd[r].body)]
                /\ Respond(r, 200, "", "", transactions'[transaction_id])
    /\ UNCHANGED <<goal_contributions, obligation_payments, goals, obligations,
                   idempotency_requests, cmd, retryOf, snap, tx, link, failures, updated>>

EditNext ==
    \E r \in Req :
        \/ Start(r)
        \/ create_contribution_check(r)
        \/ contribution_get_goal(r)
        \/ contribution_get_account(r)
        \/ contribution_insert_transaction(r)
        \/ contribution_insert_link(r)
        \/ contribution_update_amount(r)
        \/ contribution_auto_close(r)
        \/ create_contribution_store(r)
        \/ create_payment_check(r)
        \/ payment_get_obligation(r)
        \/ payment_get_account(r)
        \/ payment_insert_transaction(r)
        \/ payment_insert_link(r)
        \/ payment_update_amount(r)
        \/ payment_auto_close(r)
        \/ create_payment_store(r)
        \/ update_transaction(r)
        \/ store_failure(r)

EditSpec == EditInit /\ [][EditNext]_vars

\* ====================================================================
\* Properties
\* ====================================================================
Done(r) == pc[r] = "done"
Quiescent == \A r \in Req : pc[r] \in {"idle", "done"}
Tuples == Keys \X Users \X Households
AllBodies == { RequestBody(c) : c \in PostCmds \cup IdemCmds \cup PreCmds }
LinkTable(r) == IF cmd[r].kind = "contribution" THEN goal_contributions ELSE obligation_payments
\* rows of the idempotency table stored under exactly this tuple
RowsUnder(key, user, household) ==
    SelectSeq(idempotency_requests,
              LAMBDA row: row.key = key /\ row.user_id = user /\ row.household_id = household)
RowsOf(r) == RowsUnder(cmd[r].key, cmd[r].user, cmd[r].household)
HashOf(r) == <<"sha256", json_dumps_sorted(RequestBody(cmd[r]))>>
Fresh == [is_duplicate |-> FALSE, cached_response |-> NoRow, raised |-> ""]
\* request r takes a step of its own code (not an injected store failure)
Steps(r) == pc'[r] # pc[r] /\ failures' = failures

RECURSIVE SumAmounts(_, _)
SumAmounts(rows, parent_id) ==
    IF rows = << >> THEN 0
    ELSE (IF Head(rows).parent_id = parent_id THEN Head(rows).amount ELSE 0)
         + SumAmounts(Tail(rows), parent_id)

\* C1: of two requests with the same key, principal, household, target and
\* body (no store failure), at most one creates a ledger entry and a link
\* row, and once one of them has posted both callers have the same successful
\* response.
C1_ExactlyOnePosting ==
    \A r \in Req : \A q \in Req \ {r} :
        (cmd[r] = cmd[q] /\ failures = 0)
        => /\ ~ (tx[r] # 0 /\ tx[q] # 0)
           /\ ~ (link[r] # NoRow /\ link[q] # NoRow)
           /\ (Done(r) /\ Done(q) /\ (tx[r] # 0 \/ tx[q] # 0))
              => /\ outcome[r].status = 200
                 /\ outcome[q].status = 200
                 /\ outcome[r].body = outcome[q].body

\* C2: once a posting request has returned an error, the store holds no
\* ledger entry created by it that lacks a matching link row.
C2_NoOrphanAfterFailure ==
    \A r \in Req :
        (Done(r) /\ outcome[r].status # 200 /\ tx[r] # 0)
        => \E i \in DOMAIN LinkTable(r) : LinkTable(r)[i].transaction_id = tx[r]

\* C3: when every request has completed successfully, the goal's
\* current_amount is its initial value plus the sum of its contribution rows,
\* and the obligation's outstanding_amount its initial value minus the sum of
\* its payment rows.
C3_TotalsMatchLinks ==
    (Quiescent /\ \A r \in Req : Done(r) => outcome[r].status = 200)
    => /\ \A g \in DOMAIN goals :
            goals[g].current_amount
              = InitialGoals[g].current_amount + SumAmounts(goal_contributions, g)
       /\ \A o \in DOMAIN obligations :
            obligations[o].outstanding_amount
              = InitialObligations[o].outstanding_amount - SumAmounts(obligation_payments, o)

\* C4: a request and its retry after a 5xx answer create at most one ledger
\* entry and at most one link row between them.
C4_RetryAppliesOnce ==
    \A r \in Req :
        (retryOf[r] # NoReq /\ Done(r))
        => /\ ~ (tx[r] # 0 /\ tx[retryOf[r]] # 0)
           /\ ~ (link[r] # NoRow /\ link[retryOf[r]] # NoRow)

\* C8: a request whose store_idempotency_result collides with the record of
\* a concurrent winner is answered with the winner's cached response.
C8_CollisionAnsweredWithWinner ==
    \A r \in Req :
        (/\ Done(r) /\ failures = 0 /\ link[r] # NoRow
         /\ RowsOf(r) # << >> /\ RowsOf(r)[1].response_body # link[r])
        => /\ outcome[r].status = 200
           /\ outcome[r].body = RowsOf(r)[1].response_body

\* -------------------------------------------------------------------- C5
C5_State ==
    /\ \A t \in Tuples :
          RowsUnder(t[1], t[2], t[3]) = << >>
          => \A b \in AllBodies :
                check_idempotency(idempotency_requests, t[1], t[2], t[3], b) = Fresh
    /\ \A i \in DOMAIN idempotency_requests : \A b \in AllBodies :
          LET row == idempotency_requests[i]
          IN  row.request_hash = <<"sha256", json_dumps_sorted(b)>>
              => check_idempotency(idempotency_requests, row.key, row.user_id,
                                   row.household_id, b)
                   = [is_duplicate |-> TRUE, cached_response |-> row.response_body,
                      raised |-> ""]
    /\ \A r \in Req :
          (Done(r) /\ outcome[r].status = 200 /\ link[r] # NoRow)
          => check_idempotency(idempotency_requests, cmd[r].key, cmd[r].user,
                               cmd[r].household, RequestBody(cmd[r]))
               = [is_duplicate |-> TRUE, cached_response |-> outcome[r].body, raised |-> ""]
    /\ \A r \in Req :
          (Done(r) /\ outcome[r].status = 200 /\ link[r] = NoRow)
          => /\ tx[r] = 0 /\ snap[r] = NoSnap
             /\ RowsOf(r) # << >>
             /\ outcome[r].body = RowsOf(r)[1].response_body

C5_Action ==
    \A r \in Req :
        (/\ pc[r] = "check" /\ Steps(r)
         /\ RowsOf(r) # << >> /\ RowsOf(r)[1].request_hash = HashOf(r))
        => /\ pc'[r] = "done"
           /\ outcome'[r].status = 200
           /\ outcome'[r].body = RowsOf(r)[1].response_body
           /\ tx'[r] = 0 /\ link'[r] = NoRow
           /\ UNCHANGED store

\* C5: check_idempotency answers (False, None) while no record exists under
\* the tuple; once a response is recorded, every check with the same tuple
\* and body answers (True, the stored response body), and the handler then
\* returns that response without calling the posting service.
C5_ReplayAfterRecord == [] C5_State /\ [][C5_Action]_vars

\* a request has been answered from the record another request stored
C5_Witness ==
    \E r \in Req : \E q \in Req \ {r} :
        /\ Done(r) /\ outcome[r].status = 200 /\ link[r] = NoRow
        /\ Done(q) /\ outcome[q].status = 200 /\ link[q] # NoRow
        /\ outcome[r].body = link[q]

\* -------------------------------------------------------------------- C6
C6_State ==
    /\ \A i \in DOMAIN idempotency_requests : \A b \in AllBodies :
          LET row == idempotency_requests[i]
              res == check_idempotency(idempotency_requests, row.key, row.user_id,
                                       row.household_id, b)
          IN  row.request_hash # <<"sha256", json_dumps_sorted(b)>>
              => res.raised = "IdempotencyError" /\ ~ res.is_duplicate
    /\ \A r \in Req :
          (Done(r) /\ outcome[r].status = 409)
          => /\ outcome[r].error = "IdempotencyError"
             /\ outcome[r].detail = cmd[r].key
             /\ tx[r] = 0 /\ link[r] = NoRow /\ snap[r] = NoSnap

C6_Action ==
    \A r \in Req :
        (/\ pc[r] = "check" /\ Steps(r)
         /\ RowsOf(r) # << >> /\ RowsOf(r)[1].request_hash # HashOf(r))
        => /\ pc'[r] = "done"
           /\ outcome'[r].status = 409
           /\ outcome'[r].error = "IdempotencyError"
           /\ outcome'[r].detail = cmd[r].key
           /\ UNCHANGED store

\* C6: when the record under the tuple has another request hash,
\* check_idempotency raises IdempotencyError naming the key; the handler
\* answers 409, the posting is not executed and the store is unchanged.
C6_ConflictOnDifferentBody == [] C6_State /\ [][C6_Action]_vars

C6_Witness ==
    \E r \in Req :
        /\ Done(r) /\ outcome[r].status = 409
        /\ RowsOf(r) # << >> /\ RowsOf(r)[1].request_hash # HashOf(r)

\* -------------------------------------------------------------------- C7
C7_State ==
    \A i \in DOMAIN idempotency_requests : \A j \in DOMAIN idempotency_requests :
        (/\ idempotency_requests[i].key = idempotency_requests[j].key
         /\ idempotency_requests[i].user_id = idempotency_requests[j].user_id
         /\ idempotency_requests[i].household_id = idempotency_requests[j].household_id)
        => i = j

C7_Action ==
    \A r \in Req :
        (pc[r] \in {"c_store", "p_store"} /\ Steps(r) /\ RowsOf(r) # << >>)
        => /\ pc'[r] = "done"
           /\ outcome'[r].status = 500
           /\ outcome'[r].error # ""
           /\ idempotency_requests' = idempotency_requests

ForeignRows(table, key, user, household) ==
    SelectSeq(table, LAMBDA row: row.key = key
                                 /\ (row.user_id # user \/ row.household_id # household))
OwnRows(table, key, user, household) ==
    SelectSeq(table, LAMBDA row: ~ (row.key = key
                                    /\ (row.user_id # user \/ row.household_id # household)))

C9_State ==
    \A t \in Tuples :
        LET foreign == ForeignRows(idempotency_requests, t[1], t[2], t[3])
            own == OwnRows(idempotency_requests, t[1], t[2], t[3])
        IN  foreign # << >>
            => \A b \in AllBodies :
                 /\ check_idempotency(foreign, t[1], t[2], t[3], b) = Fresh
                 /\ check_idempotency(idempotency_requests, t[1], t[2], t[3], b)
                      = check_idempotency(own, t[1], t[2], t[3], b)

C9_Action ==
    \A r \in Req :
        (/\ pc[r] = "check" /\ Steps(r)
         /\ RowsOf(r) = << >>
         /\ ForeignRows(idempotency_requests, cmd[r].key, cmd[r].user, cmd[r].household) # << >>)
        => /\ pc'[r] \in {"c_get_goal", "p_get_obligation"}
           /\ outcome'[r] = NoOutcome

\* C9: records stored under the same literal key by another user or another
\* household never make check_idempotency answer a replay or raise a
\* conflict: the check answers (False, None) whatever the body and the
\* handler goes on to the posting service.
C9_KeysScopedByUserAndHousehold == [] C9_State /\ [][C9_Action]_vars

\* two records share a key under different tuples, each from its own posting
C9_Witness ==
    \E i \in DOMAIN idempotency_requests : \E j \in DOMAIN idempotency_requests :
        /\ i < j
        /\ idempotency_requests[i].key = idempotency_requests[j].key
        /\ idempotency_requests[i].response_body # idempotency_requests[j].response_body
        /\ \/ idempotency_requests[i].user_id # idempotency_requests[j].user_id
           \/ idempotency_requests[i].household_id # idempotency_requests[j].household_id

\* ------------------------------------------------------------------- C10
AccountInHousehold(r) ==
    cmd[r].account \in DOMAIN accounts /\ accounts[cmd[r].account] = cmd[r].household

PreconditionFails(r, error) ==
    /\ pc'[r] = "done"
    /\ outcome'[r].error = error
    /\ tx[r] = 0 /\ tx'[r] = 0
    /\ link[r] = NoRow /\ link'[r] = NoRow
    /\ UNCHANGED store

C10_Action ==
    \A r \in Req :
        (cmd[r].kind = "contribution" /\ Steps(r))
        => /\ (pc[r] \in {"idle", "check", "c_get_goal", "c_get_account"}) => UNCHANGED store
           /\ (pc[r] = "c_get_goal" /\ cmd[r].target \notin DOMAIN goals)
              => PreconditionFails(r, "NotFoundError:Meta")
           /\ (/\ pc[r] = "c_get_goal" /\ cmd[r].target \in DOMAIN goals
               /\ goals[cmd[r].target].status # "active")
              => PreconditionFails(r, "ValidationError:La meta debe estar activa")
           /\ (pc[r] = "c_get_account" /\ ~ AccountInHousehold(r))
              => PreconditionFails(r, "NotFoundError:Cuenta")
           /\ (pc[r] = "c_get_account" /\ AccountInHousehold(r) /\ cmd[r].amount <= 0)
              => PreconditionFails(r, "ValidationError:El monto del aporte debe ser positivo")

\* C10: create_contribution writes nothing when a precondition fails (goal
\* missing, goal not active, account not in the household, amount <= 0);
\* each of the four is raised as its own error and the store is unchanged.
C10_PreconditionsBeforeWrites == [][C10_Action]_vars

C10_Witness ==
    \E r \in Req : \E q \in Req \ {r} :
        /\ Done(r) /\ outcome[r].error = "ValidationError:El monto del aporte debe ser positivo"
        /\ Done(q) /\ outcome[q].error = "NotFoundError:Cuenta"
        /\ transactions = << >> /\ goal_contributions = << >> /\ goals = InitialGoals

\* ------------------------------------------------------------------- C11
\* request r has posted: the service returned and the handler answered with
\* the link row r created
Posted(r) == Done(r) /\ outcome[r].status = 200 /\ link[r] # NoRow
\* the new total the posting computes from the row it read
NewAmount(r) ==
    IF cmd[r].kind = "contribution" THEN snap[r].amount + cmd[r].amount
    ELSE snap[r].amount - cmd[r].amount
\* status and completed_at of every stored row are left as they are
StatusUnchanged(table) ==
    \A id \in DOMAIN table :
        /\ id \in DOMAIN table'
        /\ table'[id].status = table[id].status
        /\ table'[id].completed_at = table[id].completed_at

C11_Action ==
    \A r \in Req :
        (cmd[r].kind = "contribution" /\ Steps(r))
        => /\ pc[r] = "c_update_amount"
              => /\ goals'[cmd[r].target].current_amount = NewAmount(r)
                 /\ (pc'[r] = "c_auto_close") <=> (NewAmount(r) >= snap[r].target)
                 /\ (pc'[r] = "c_store") <=> (NewAmount(r) < snap[r].target)
           /\ pc[r] = "c_auto_close"
              => /\ NewAmount(r) >= snap[r].target
                 /\ goals'[cmd[r].target].status = "completed"
                 /\ goals'[cmd[r].target].completed_at # NoDate
                 /\ pc'[r] = "c_store"
           /\ pc[r] # "c_auto_close" => StatusUnchanged(goals)

C11_State ==
    \A r \in Req :
        (cmd[r].kind = "contribution" /\ Posted(r))
        => LET goal == goals[cmd[r].target]
           IN  /\ NewAmount(r) >= snap[r].target
                  => goal.status = "completed" /\ goal.completed_at # NoDate
               /\ (/\ NewAmount(r) < snap[r].target
                   /\ \A q \in Req \ {r} : cmd[q].target = cmd[r].target => tx[q] = 0)
                  => goal.status = "active" /\ goal.completed_at = NoDate

\* C11: a contribution posting marks the goal completed (status completed,
\* completed_at set) exactly when the current_amount it read plus the amount
\* reaches the target_amount it read, equality included; below the target
\* the posting writes neither status nor completed_at, so a goal no other
\* posting touched stays active with completed_at null.
C11_AutoCloseAtTarget == [] C11_State /\ [][C11_Action]_vars

\* one posting stopped one cent below the target and left the goal active,
\* the next reached the target exactly and completed it
C11_Witness ==
    \E r \in Req : \E q \in Req \ {r} :
        /\ cmd[r].kind = "contribution" /\ cmd[q].kind = "contribution"
        /\ Posted(r) /\ NewAmount(r) = snap[r].target - 1 /\ snap[r].amount = 0
        /\ Posted(q) /\ NewAmount(q) = snap[q].target /\ snap[q].amount = NewAmount(r)
        /\ goals[cmd[q].target].status = "completed"
        /\ goals[cmd[q].target].completed_at # NoDate

\* ------------------------------------------------------------------- C12
\* no other request has started writing for the item r posts to
OnlyWriter(r) == \A q \in Req \ {r} : cmd[q].target = cmd[r].target => tx[q] = 0

C12_Action ==
    \A r \in Req :
        (cmd[r].kind = "payment" /\ Steps(r))
        => /\ pc[r] = "p_update_amount"
              => /\ obligations'[cmd[r].target].outstanding_amount = snap[r].amount - cmd[r].amount
                 /\ cmd[r].amount = snap[r].amount
                    => /\ obligations'[cmd[r].target].outstanding_amount = 0
                       /\ pc'[r] = "p_auto_close"
                 /\ cmd[r].amount < snap[r].amount => pc'[r] = "p_store"
           /\ pc[r] = "p_auto_close"
              => /\ obligations'[cmd[r].target].status = "completed"
                 /\ obligations'[cmd[r].target].completed_at # NoDate
                 /\ obligations'[cmd[r].target].outstanding_amount
                      = obligations[cmd[r].target].outstanding_amount
                 /\ pc'[r] = "p_store"
           /\ pc[r] # "p_auto_close" => StatusUnchanged(obligations)

C12_State ==
    \A r \in Req :
        (cmd[r].kind = "payment" /\ Posted(r))
        => LET obligation == obligations[cmd[r].target]
           IN  /\ cmd[r].amount = snap[r].amount
                  => /\ obligation.status = "completed" /\ obligation.completed_at # NoDate
                     /\ OnlyWriter(r) => obligation.outstanding_amount = 0
               /\ (cmd[r].amount < snap[r].amount /\ OnlyWriter(r))
                  => /\ obligation.status = "active" /\ obligation.completed_at = NoDate
                     /\ obligation.outstanding_amount = snap[r].amount - cmd[r].amount

\* C12: a payment posting whose amount equals the outstanding_amount it read
\* writes outstanding_amount 0 and then marks the obligation completed with
\* completed_at set; a posting whose amount is below it writes the
\* difference and leaves status and completed_at alone, so an obligation no
\* other posting touched stays active.
C12_PaymentClosesAtZero == [] C12_State /\ [][C12_Action]_vars

\* a partial payment left the obligation active, the next one paid the rest
C12_Witness ==
    \E r \in Req : \E q \in Req \ {r} :
        /\ cmd[r].kind = "payment" /\ cmd[q].kind = "payment"
        /\ Posted(r) /\ cmd[r].amount < snap[r].amount
        /\ Posted(q) /\ cmd[q].amount = snap[q].amount
        /\ snap[q].amount = snap[r].amount - cmd[r].amount
        /\ obligations[cmd[q].target].outstanding_amount = 0
        /\ obligations[cmd[q].target].status = "completed"
        /\ obligations[cmd[q].target].completed_at # NoDate

\* ------------------------------------------------------------------- C13
C13_Action ==
    \A r \in Req :
        (cmd[r].kind = "payment" /\ Steps(r))
        => /\ (pc[r] \in {"idle", "check", "p_get_obligation", "p_get_account"})
              => UNCHANGED store
           /\ (/\ pc[r] = "p_get_account" /\ AccountInHousehold(r)
               /\ cmd[r].amount > 0 /\ cmd[r].amount > snap[r].amount)
              => PreconditionFails(r, "ValidationError:El monto del pago no puede exceder el monto pendiente")

C13_State ==
    \A r \in Req :
        (/\ cmd[r].kind = "payment" /\ snap[r].found /\ AccountInHousehold(r)
         /\ cmd[r].amount > snap[r].amount /\ pc[r] # "p_get_account")
        => /\ Done(r)
           /\ outcome[r].error \in
                {"ValidationError:El monto del pago no puede exceder el monto pendiente",
                 "StoreUnavailable"}
           /\ outcome[r].status # 200
           /\ tx[r] = 0 /\ link[r] = NoRow

\* C13: a payment whose amount exceeds the outstanding_amount of the
\* obligation row it read is refused with the ValidationError "el monto del
\* pago no puede exceder el monto pendiente" before the first insert: the
\* request creates no transaction and no obligation_payments row and leaves
\* every table as it was.
C13_OverpaymentRejected == [] C13_State /\ [][C13_Action]_vars

\* after a partial payment, a payment above the rest was refused and the
\* obligation still holds what the first payment left
C13_Witness ==
    \E r \in Req : \E q \in Req \ {r} :
        /\ cmd[q].kind = "payment" /\ Posted(q)
        /\ Done(r) /\ cmd[r].target = cmd[q].target
        /\ outcome[r].error = "ValidationError:El monto del pago no puede exceder el monto pendiente"
        /\ cmd[r].amount > snap[r].amount /\ snap[r].amount = MaxAmount - cmd[q].amount
        /\ Len(transactions) = 1 /\ Len(obligation_payments) = 1
        /\ obligations[cmd[r].target].outstanding_amount = snap[r].amount
        /\ obligations[cmd[r].target].status = "active"

\* ------------------------------------------------------------------- C15
C15_Action ==
    \A o \in DOMAIN obligations :
        obligations'[o].outstanding_amount <= obligations[o].outstanding_amount

\* C15: no step of any payment posting, alone or interleaved with others,
\* raises the stored outstanding_amount of an obligation.
C15_OutstandingNeverIncreases == [][C15_Action]_vars

\* ------------------------------------------------------------------- C16
\* C16: when create_contribution returns auto_closed = True, the goal row in
\* the same result has status completed and completed_at set, as the stored
\* row has; likewise the obligation row create_payment returns.
C16_ReturnedRowIsClosed ==
    \A r \in Req :
        /\ (pc[r] = "c_store" /\ contribution_result(r).auto_closed)
           => /\ contribution_result(r).goal.status = "completed"
              /\ contribution_result(r).goal.completed_at # NoDate
        /\ (pc[r] = "p_store" /\ payment_result(r).auto_closed)
           => /\ payment_result(r).obligation.status = "completed"
              /\ payment_result(r).obligation.completed_at # NoDate

\* ------------------------------------------------------------------- C17
LedgerKind(r) == IF cmd[r].kind = "contribution" THEN "income" ELSE "expense"
LinksOf(table, transaction_id) ==
    { i \in DOMAIN table : table[i].transaction_id = transaction_id }

C17_State ==
    \A r \in Req :
        Posted(r)
        => /\ tx[r] \in DOMAIN transactions
           /\ transactions[tx[r]] = [id |-> tx[r], household_id |-> cmd[r].household,
                                     kind |-> LedgerKind(r), amount |-> cmd[r].amount,
                                     account_id |-> cmd[r].account]
           /\ \A q \in Req \ {r} : tx[q] # tx[r]
           /\ Cardinality(LinksOf(LinkTable(r), tx[r])) = 1
           /\ \E i \in DOMAIN LinkTable(r) :
                 /\ LinkTable(r)[i] = link[r]
                 /\ link[r].transaction_id = tx[r]
                 /\ link[r].parent_id = cmd[r].target
                 /\ link[r].amount = cmd[r].amount
           /\ LinksOf(IF cmd[r].kind = "contribution"
                      THEN obligation_payments ELSE goal_contributions, tx[r]) = {}

C17_Action ==
    \A r \in Req :
        Steps(r)
        => /\ Len(transactions')
                = Len(transactions)
                  + (IF pc[r] \in {"c_insert_transaction", "p_insert_transaction"} THEN 1 ELSE 0)
           /\ Len(goal_contributions')
                = Len(goal_contributions) + (IF pc[r] = "c_insert_link" THEN 1 ELSE 0)
           /\ Len(obligation_payments')
                = Len(obligation_payments) + (IF pc[r] = "p_insert_link" THEN 1 ELSE 0)
           /\ \A i \in DOMAIN transactions : transactions'[i] = transactions[i]
           /\ \A i \in DOMAIN goal_contributions : goal_contributions'[i] = goal_contributions[i]
           /\ \A i \in DOMAIN obligation_payments : obligation_payments'[i] = obligation_payments[i]
           /\ pc[r] \in {"c_insert_transaction", "p_insert_transaction"} => tx[r] = 0
           /\ pc[r] \in {"c_insert_link", "p_insert_link"} => link[r] = NoRow

\* C17: a posting that succeeds has created exactly one transactions row
\* (kind income for a contribution, expense for a payment, the requested
\* amount, the requested account) and exactly one link row, in
\* goal_contributions resp. obligation_payments, that references this
\* transaction and the goal resp. obligation with the same amount; no other
\* step of the request adds or changes a row of these tables.
C17_OneEntryOneLink == [] C17_State /\ [][C17_Action]_vars

\* a contribution and a payment have both been posted
C17_Witness ==
    \E r \in Req : \E q \in Req \ {r} :
        /\ cmd[r].kind = "contribution" /\ Posted(r)
        /\ cmd[q].kind = "payment" /\ Posted(q)
        /\ Len(transactions) = 2
        /\ Len(goal_contributions) = 1 /\ Len(obligation_payments) = 1

\* ------------------------------------------------------------------- C18
\* the posting service of request r has run to its end
ServiceCompleted(r) ==
    /\ tx[r] \in DOMAIN transactions
    /\ link[r] # NoRow
    /\ \E i \in DOMAIN LinkTable(r) : LinkTable(r)[i] = link[r]
    /\ updated[r] # NoItem
    /\ IF cmd[r].kind = "contribution"
       THEN NewAmount(r) >= snap[r].target => goals[cmd[r].target].status = "completed"
       ELSE NewAmount(r) <= 0 => obligations[cmd[r].target].status = "completed"

C18_Action ==
    /\ Len(idempotency_requests') >= Len(idempotency_requests)
    /\ \A i \in DOMAIN idempotency_requests :
          idempotency_requests'[i] = idempotency_requests[i]
    /\ Len(idempotency_requests') > Len(idempotency_requests)
       => \E r \in Req :
            /\ pc[r] \in {"c_store", "p_store"} /\ Steps(r)
            /\ ServiceCompleted(r)
            /\ outcome'[r].status = 200
            /\ idempotency_requests'
                 = Append(idempotency_requests,
                          [key |-> cmd[r].key, user_id |-> cmd[r].user,
                           household_id |-> cmd[r].household, request_hash |-> HashOf(r),
                           response_status |-> 201, response_body |-> link[r]])

C18_State ==
    /\ \A i \in DOMAIN idempotency_requests :
          \E r \in Req :
            /\ Posted(r) /\ ServiceCompleted(r)
            /\ idempotency_requests[i].response_body = link[r]
            /\ idempotency_requests[i].request_hash = HashOf(r)
            /\ idempotency_requests[i].response_status = 201
    /\ \A r \in Req :
          (Done(r) /\ outcome[r].status # 200)
          => /\ link[r] # NoRow
                => \A i \in DOMAIN idempotency_requests :
                      idempotency_requests[i].response_body # link[r]
             /\ (\A q \in Req \ {r} : link[q] = NoRow) => idempotency_requests = << >>

\* C18: a row of idempotency_requests is inserted only by the handler's
\* store_idempotency_result step, after the posting service has run to its
\* end, and carries the hash of that request and its response; a request
\* that failed has inserted none; no step (check_idempotency or
\* store_idempotency_result of any request) changes or removes a row once it
\* is there.
C18_RecordAfterSuccessNeverMutated == [] C18_State /\ [][C18_Action]_vars

\* a posting failed midway and left no record; its retry posted and recorded
C18_Witness ==
    \E r \in Req : \E q \in Req \ {r} :
        /\ Done(r) /\ outcome[r].status = 500 /\ tx[r] # 0
        /\ retryOf[q] = r /\ Posted(q)
        /\ Len(idempotency_requests) = 1
        /\ idempotency_requests[1].response_body = link[q]

\* ------------------------------------------------------------------- C19
NotFoundErrors == {"NotFoundError:Meta", "NotFoundError:Obligacion", "NotFoundError:Cuenta"}
ValidationErrors ==
    {"ValidationError:La meta debe estar activa",
     "ValidationError:La obligacion debe estar activa",
     "ValidationError:El monto del aporte debe ser positivo",
     "ValidationError:El monto del pago debe ser positivo",
     "ValidationError:El monto del pago no puede exceder el monto pendiente"}

\* C19: a posting request that fails on a missing goal, obligation or
\* account is answered 404, one that fails on a lifecycle or argument check
\* is answered with a 4xx status, one that fails on an idempotency conflict
\* is answered 409; none of these is answered with a 5xx status.
C19_DomainErrorsKeepTheirStatus ==
    \A r \in Req :
        Done(r)
        => /\ outcome[r].error \in NotFoundErrors => outcome[r].status = 404
           /\ outcome[r].error \in ValidationErrors
              => outcome[r].status >= 400 /\ outcome[r].status < 500
           /\ outcome[r].error = "IdempotencyError" => outcome[r].status = 409

\* ------------------------------------------------------------------- C14
\* C14: in every state reached through create_goal, contribution postings,
\* close_goal, reopen_goal and rollover_goal, a goal has status completed
\* exactly when its stored current_amount has reached its target_amount.
C14_CompletedIffTargetReached ==
    \A g \in DOMAIN goals :
        (goals[g].status = "completed") <=> (goals[g].current_amount >= goals[g].target_amount)

\* ------------------------------------------------------------------- C20
\* the item of a roll-forward request, in the table it reads
RollTable(r) == IF cmd[r].kind = "rollover_goal" THEN goals ELSE obligations
RollError(r, goal_error, obligation_error) ==
    IF cmd[r].kind = "rollover_goal" THEN goal_error ELSE obligation_error

\* the roll-forward fails with `error` and inserts nothing
RollForwardRefused(r, error) ==
    /\ pc'[r] = "done"
    /\ outcome'[r].error = error
    /\ outcome'[r].status # 200
    /\ snap'[r] = NoSnap
    /\ DOMAIN goals' = DOMAIN goals /\ DOMAIN obligations' = DOMAIN obligations
    /\ UNCHANGED store

C20_Action ==
    \A r \in Req :
        (/\ cmd[r].kind \in {"rollover_goal", "renew_obligation"}
         /\ pc[r] = "check" /\ Steps(r)
         /\ cmd[r].target \in DOMAIN RollTable(r))
        => LET item == RollTable(r)[cmd[r].target]
           IN  /\ ~ item.is_recurring
                  => RollForwardRefused(r,
                        RollError(r, "ValidationError:La meta no es recurrente",
                                     "ValidationError:La obligacion no es recurrente"))
               /\ (item.is_recurring /\ item.status # "completed")
                  => RollForwardRefused(r,
                        RollError(r, "ValidationError:La meta debe estar completada para hacer rollover",
                                     "ValidationError:La obligacion debe estar completada para renovar"))
               /\ (item.is_recurring /\ item.status = "completed"
                   /\ item.recurrence_pattern = None)
                  => RollForwardRefused(r,
                        RollError(r, "ValidationError:La meta recurrente debe tener un patron de recurrencia",
                                     "ValidationError:La obligacion recurrente debe tener un patron de recurrencia"))
               /\ (item.is_recurring /\ item.status = "completed"
                   /\ item.recurrence_pattern # None
                   /\ item.recurrence_pattern \notin RecurrencePattern)
                  => RollForwardRefused(r, "ValidationError:Patron de recurrencia no valido")

C20_State ==
    \A r \in Req :
        (cmd[r].kind \in {"rollover_goal", "renew_obligation"} /\ pc[r] \in {"r_insert", "n_insert"})
        => /\ snap[r].is_recurring
           /\ snap[r].status = "completed"
           /\ snap[r].recurrence_pattern \in RecurrencePattern

\* C20: rollover_goal and renew_obligation raise a ValidationError and
\* insert nothing when the item they read is not recurring, is not
\* completed, has no recurrence_pattern, or has a pattern that is none of
\* daily, weekly, monthly, quarterly, yearly; the insert is reached only
\* with an item that passes all four.
C20_RollForwardPreconditions == [] C20_State /\ [][C20_Action]_vars

\* a rollover was refused for an unknown pattern and a renewal for an
\* obligation that is not completed; no item was added
C20_Witness ==
    \E r \in Req : \E q \in Req \ {r} :
        /\ cmd[r].kind = "rollover_goal" /\ Done(r)
        /\ outcome[r].error = "ValidationError:Patron de recurrencia no valido"
        /\ cmd[q].kind = "renew_obligation" /\ Done(q)
        /\ outcome[q].error = "ValidationError:La obligacion debe estar completada para renovar"
        /\ DOMAIN goals = DOMAIN InitialGoals
        /\ DOMAIN obligations = DOMAIN InitialObligations

\* ------------------------------------------------------------------- C21
\* the rows of table' that table does not hold
Inserted(table_before, table_after) == DOMAIN table_after \ DOMAIN table_before
\* every row of the table is still there with every field as it was
RowsKept(table_before, table_after) ==
    \A id \in DOMAIN table_before :
        id \in DOMAIN table_after /\ table_after[id] = table_before[id]
\* the date the roll-forward of `item` is due on
NextDateOf(item, date_field) ==
    calculate_next_date(IF item[date_field] # NoDate THEN item[date_field] ELSE Today,
                        item.recurrence_pattern, item.completed_at).date

C21_Action ==
    \A r \in Req :
        Steps(r)
        => /\ pc[r] = "r_insert"
              => /\ pc'[r] = "done" /\ outcome'[r].status = 200
                 /\ Cardinality(Inserted(goals, goals')) = 1
                 /\ \A id \in Inserted(goals, goals') :
                       /\ goals'[id].status = "active"
                       /\ goals'[id].completed_at = NoDate
                       /\ goals'[id].current_amount = 0
                       /\ goals'[id].target_amount = goals[cmd[r].target].target_amount
                       /\ goals'[id].household_id = goals[cmd[r].target].household_id
                       /\ goals'[id].name = goals[cmd[r].target].name
                       /\ goals'[id].priority = goals[cmd[r].target].priority
                       /\ goals'[id].description = goals[cmd[r].target].description
                       /\ goals'[id].is_recurring
                       /\ goals'[id].recurrence_pattern = goals[cmd[r].target].recurrence_pattern
                       /\ goals'[id].target_date = NextDateOf(snap[r], "target_date")
                       /\ outcome'[r].body = goals'[id]
                 /\ RowsKept(goals, goals')
                 /\ UNCHANGED <<transactions, goal_contributions, obligation_payments,
                                obligations, idempotency_requests>>
           /\ pc[r] = "n_insert"
              => /\ pc'[r] = "done" /\ outcome'[r].status = 200
                 /\ Cardinality(Inserted(obligations, obligations')) = 1
                 /\ \A id \in Inserted(obligations, obligations') :
                       /\ obligations'[id].status = "active"
                       /\ obligations'[id].completed_at = NoDate
                       /\ obligations'[id].outstanding_amount
                            = obligations[cmd[r].target].total_amount
                       /\ obligations'[id].total_amount = obligations[cmd[r].target].total_amount
                       /\ obligations'[id].household_id = obligations[cmd[r].target].household_id
                       /\ obligations'[id].name = obligations[cmd[r].target].name
                       /\ obligations'[id].priority = obligations[cmd[r].target].priority
                       /\ obligations'[id].description = obligations[cmd[r].target].description
                       /\ obligations'[id].is_recurring
                       /\ obligations'[id].recurrence_pattern
                            = obligations[cmd[r].target].recurrence_pattern
                       /\ obligations'[id].due_date = NextDateOf(snap[r], "due_date")
                       /\ outcome'[r].body = obligations'[id]
                 /\ RowsKept(obligations, obligations')
                 /\ UNCHANGED <<transactions, goal_contributions, obligation_payments,
                                goals, idempotency_requests>>
           /\ (cmd[r].kind \in {"rollover_goal", "renew_obligation"} /\ pc[r] = "check")
              => UNCHANGED store

C21_State ==
    \A r \in Req :
        (cmd[r].kind \in {"rollover_goal", "renew_obligation"} /\ Done(r)
         /\ outcome[r].status = 200)
        => /\ outcome[r].body.status = "active"
           /\ \E id \in DOMAIN RollTable(r) \ {cmd[r].target} :
                 RollTable(r)[id] = outcome[r].body
           /\ RollTable(r)[cmd[r].target].name = snap[r].name
           /\ RollTable(r)[cmd[r].target].recurrence_pattern = snap[r].recurrence_pattern

\* C21: the insert step of rollover_goal / renew_obligation adds exactly one
\* row: status active, completed_at null, current_amount 0 (obligation:
\* outstanding_amount = total_amount), name, priority, description,
\* recurrence_pattern, household and target/total amount of the source, and
\* the target/due date the next-date function gives for the source row that
\* was read; every row already in the table, the source included, keeps all
\* its fields, and no other table is written.
C21_RollForwardEffect == [] C21_State /\ [][C21_Action]_vars

\* a goal and an obligation have both been rolled forward, the sources are
\* still completed
C21_Witness ==
    \E r \in Req : \E q \in Req \ {r} :
        /\ cmd[r].kind = "rollover_goal" /\ Done(r) /\ outcome[r].status = 200
        /\ cmd[q].kind = "renew_obligation" /\ Done(q) /\ outcome[q].status = 200
        /\ Cardinality(DOMAIN goals) = Cardinality(DOMAIN InitialGoals) + 1
        /\ Cardinality(DOMAIN obligations) = Cardinality(DOMAIN InitialObligations) + 1
        /\ goals[cmd[r].target].status = "completed"
        /\ obligations[cmd[q].target].status = "completed"
        /\ outcome[r].body.current_amount = 0
        /\ outcome[q].body.outstanding_amount = outcome[q].body.total_amount

\* ------------------------------------------------------------------- C22
\* proleptic Gregorian day number of a date (1 = 0001-01-01)
DaysBeforeYear(year) ==
    365 * (year - 1) + ((year - 1) \div 4) - ((year - 1) \div 100) + ((year - 1) \div 400)
LeapYear(year) == DaysBeforeYear(year + 1) - DaysBeforeYear(year) = 366
MonthLengths(year) ==
    <<31, IF LeapYear(year) THEN 29 ELSE 28, 31, 30, 31, 30, 31, 31, 30, 31, 30, 31>>
RECURSIVE DaysBeforeMonth(_, _)
DaysBeforeMonth(year, month) ==
    IF month = 1 THEN 0
    ELSE DaysBeforeMonth(year, month - 1) + MonthLengths(year)[month - 1]
Ordinal(d) == DaysBeforeYear(d.year) + DaysBeforeMonth(d.year, d.month) + d.day
IsDate(d) ==
    /\ d.year >= 1 /\ d.month \in 1..12
    /\ d.day >= 1 /\ d.day <= MonthLengths(d.year)[d.month]

\* the base date of the inputs of slot r
BaseDate(r) ==
    IF cmd[r].completed_at # NoDate THEN cmd[r].completed_at
    ELSE IF cmd[r].date # NoDate THEN cmd[r].date
    ELSE Today

\* the result is the date `days` days after the base
DaysLater(r, days) ==
    /\ outcome[r].error = ""
    /\ IsDate(outcome[r].body)
    /\ Ordinal(outcome[r].body) = Ordinal(BaseDate(r)) + days

\* the result is the day of the base in the given year and month, or a
\* ValueError when that month has no such day
SameDayIn(r, year, month) ==
    IF IsDate(Date(year, month, BaseDate(r).day))
    THEN outcome[r].error = "" /\ outcome[r].body = Date(year, month, BaseDate(r).day)
    ELSE outcome[r].error = "ValueError" /\ outcome[r].body = NoDate

\* C22: the next date is computed from the base date - the date of
\* completed_at if there is one, else the target / due date, else today -
\* as: daily base + 1 day, weekly base + 7 days, quarterly base + 90 days,
\* yearly the same month and day one year later, monthly the same day in the
\* next month, in January of the next year when the base is in December;
\* where that day does not exist the computation raises ValueError and
\* gives no date.
C22_NextDate ==
    \A r \in Req :
        Done(r)
        => LET base == BaseDate(r)
               pattern == cmd[r].recurrence_pattern
           IN  /\ pattern = "daily" => DaysLater(r, 1)
               /\ pattern = "weekly" => DaysLater(r, 7)
               /\ pattern = "quarterly" => DaysLater(r, 90)
               /\ pattern = "yearly" => SameDayIn(r, base.year + 1, base.month)
               /\ (pattern = "monthly" /\ base.month < 12)
                  => SameDayIn(r, base.year, base.month + 1)
               /\ (pattern = "monthly" /\ base.month = 12)
                  => SameDayIn(r, base.year + 1, 1)

\* a monthly step from 31 December gave 31 January of the next year, from a
\* base taken from completed_at although a target date was present, and a
\* daily step from the target date (no completed_at) crossed the month end
C22_Witness ==
    \E r \in Req : \E q \in Req \ {r} :
        /\ Done(r) /\ cmd[r].recurrence_pattern = "monthly"
        /\ cmd[r].completed_at = Date(2024, 12, 31) /\ cmd[r].date = Date(2024, 3, 15)
        /\ outcome[r].body = Date(2025, 1, 31)
        /\ Done(q) /\ cmd[q].recurrence_pattern = "daily"
        /\ cmd[q].completed_at = NoDate /\ cmd[q].date = Date(2024, 2, 29)
        /\ outcome[q].body = Date(2024, 3, 1)

\* ------------------------------------------------------------------- C23
\* the items of a dict, whatever their order
Items(body) == { body[i] : i \in DOMAIN body }
KeysOf(body) == { body[i][1] : i \in DOMAIN body }

\* C23: two dicts that hold the same keys with the same values get the same
\* hash whatever the order of their keys, and one dict gets the same hash on
\* every call (the two calls are the two slots).
C23_HashIgnoresKeyOrder ==
    \A r \in Req : \A q \in Req :
        (Done(r) /\ Done(q) /\ Items(cmd[r].body) = Items(cmd[q].body))
        => outcome[r].body = outcome[q].body

\* two dicts with the same items in different orders have been hashed
C23_Witness ==
    \E r \in Req : \E q \in Req \ {r} :
        /\ Done(r) /\ Done(q)
        /\ Items(cmd[r].body) = Items(cmd[q].body)
        /\ cmd[r].body # cmd[q].body
        /\ cmd[r].body[1][1] = "source_account_id" /\ cmd[q].body[1][1] = "amount"
        /\ outcome[r].body = outcome[q].body

\* ------------------------------------------------------------------- C24
\* C24: two dicts with the same keys that differ in the value of at least
\* one key get different hashes (SHA-256 taken as free of collisions).
C24_HashSeparatesValues ==
    \A r \in Req : \A q \in Req :
        (/\ Done(r) /\ Done(q)
         /\ KeysOf(cmd[r].body) = KeysOf(cmd[q].body)
         /\ Items(cmd[r].body) # Items(cmd[q].body))
        => outcome[r].body # outcome[q].body

\* two dicts in different key orders that differ in the amount only have
\* been hashed
C24_Witness ==
    \E r \in Req : \E q \in Req \ {r} :
        /\ Done(r) /\ Done(q)
        /\ cmd[r].body[1] = <<"amount", 1>> /\ cmd[q].body[3] = <<"amount", 2>>
        /\ Items(cmd[r].body) \ {<<"amount", 1>>} = Items(cmd[q].body) \ {<<"amount", 2>>}
        /\ outcome[r].body # outcome[q].body

\* ------------------------------------------------------------------- C25
\* C25: in every reachable state, interleavings of concurrent payment
\* postings under different idempotency keys included, outstanding_amount
\* is >= 0 and the amounts of the payment links of an obligation add up to
\* no more than the outstanding amount it had before those payments.
C25_PaymentsWithinOutstanding ==
    \A id \in DOMAIN obligations :
        /\ obligations[id].outstanding_amount >= 0
        /\ SumAmounts(obligation_payments, id) <= InitialObligations[id].outstanding_amount

\* ------------------------------------------------------------------- C26
\* a contribution writes: ledger entry, link row, new total or status
ContributionWrites(r) ==
    /\ cmd[r].kind = "contribution"
    /\ Steps(r)
    /\ pc[r] \in {"c_insert_transaction", "c_insert_link", "c_update_amount", "c_auto_close"}

C26_Action ==
    \A r \in Req :
        (ContributionWrites(r) /\ pc[r] = "c_insert_transaction")
        => goals[cmd[r].target].status = "active"

\* C26: no contribution is applied to a goal that is not active at the
\* moment of the write: once a goal is completed, a contribution posting
\* that has not yet inserted its ledger entry inserts none, also when its
\* status check ran before the completing posting finished.
C26_NoContributionToCompletedGoal == [][C26_Action]_vars

\* ------------------------------------------------------------------- C27
\* the record of the tuple of r holds the hash of the body of r
RecordedSameBody(r) ==
    /\ RowsOf(r) # << >>
    /\ RowsOf(r)[1].request_hash = HashOf(r)

C27_Action ==
    \A r \in Req :
        (pc[r] = "check" /\ Steps(r) /\ RecordedSameBody(r))
        => /\ pc'[r] = "done"
           /\ outcome'[r].status = 200
           /\ outcome'[r].body = RowsOf(r)[1].response_body
           /\ UNCHANGED store

C27_State ==
    \A r \in Req : \A q \in Req \ {r} :
        (/\ Done(r) /\ Posted(q)
         /\ cmd[r].key = cmd[q].key /\ cmd[r].user = cmd[q].user
         /\ cmd[r].household = cmd[q].household
         /\ RequestBody(cmd[r]) = RequestBody(cmd[q])
         /\ cmd[r].target # cmd[q].target
         /\ tx[r] = 0 /\ failures = 0)
        => /\ outcome[r].status = 200
           /\ outcome[r].body = outcome[q].body
           /\ outcome[r].body.parent_id = cmd[q].target
           /\ SumAmounts(goal_contributions, cmd[r].target) = 0
           /\ goals[cmd[r].target].current_amount = 0

\* C27: the replay decision depends on key, user, household and body hash
\* only, not on the target: a contribution with the same key and the same
\* body addressed to another goal of the household is answered with the
\* cached response of the first request and posts nothing to the second goal.
C27_ReplayIgnoresTarget == [] C27_State /\ [][C27_Action]_vars

\* a contribution to g2 was answered with the contribution row of g1, and
\* g2 received nothing
C27_Witness ==
    \E r \in Req : \E q \in Req \ {r} :
        /\ Posted(q) /\ cmd[q].target = "g1"
        /\ Done(r) /\ cmd[r].target = "g2" /\ cmd[r].key = cmd[q].key
        /\ outcome[r].status = 200
        /\ outcome[r].body = link[q]
        /\ outcome[r].body.parent_id = "g1"
        /\ goals["g2"].status = "active" /\ goals["g2"].current_amount = 0
        /\ SumAmounts(goal_contributions, "g2") = 0

\* ------------------------------------------------------------------- C28
\* the ledger entries linked from `links` belong to the household of the
\* row of `parents` the link names
LinkedInHousehold(links, parents) ==
    \A i \in DOMAIN links :
        transactions[links[i].transaction_id].household_id
            = parents[links[i].parent_id].household_id

\* C28: every ledger entry a posting created carries the household_id of
\* the goal or obligation it is linked to; a posting whose request household
\* differs from the household of the target writes nothing.
C28_LedgerEntryInHouseholdOfTarget ==
    /\ LinkedInHousehold(goal_contributions, goals)
    /\ LinkedInHousehold(obligation_payments, obligations)

\* ------------------------------------------------------------------- C29
\* request r edits a ledger entry in this step
Edits(r) == cmd[r].kind = "update_transaction" /\ pc[r] = "check" /\ Steps(r)

C29_Action ==
    \A r \in Req :
        Edits(r)
        => /\ UNCHANGED <<goal_contributions, obligation_payments, goals, obligations>>
           /\ Len(transactions') = Len(transactions)
           /\ \A id \in DOMAIN transactions :
                 id # cmd[r].transaction_id => transactions'[id] = transactions[id]

\* C29: update_transaction on a ledger entry linked to a contribution or a
\* payment changes that ledger entry only: the amount of the link row and
\* the current_amount or outstanding_amount and the status of the goal or
\* obligation stay as they were.
C29_EditTouchesLedgerEntryOnly == [][C29_Action]_vars

\* the ledger entry of a finished contribution was edited to another amount;
\* its link row and the goal still carry the amount of the posting
C29_Witness ==
    \E r \in Req : \E q \in Req \ {r} :
        /\ Posted(q) /\ cmd[q].kind = "contribution"
        /\ Done(r) /\ cmd[r].kind = "update_transaction" /\ outcome[r].status = 200
        /\ cmd[r].transaction_id = tx[q]
        /\ transactions[tx[q]].amount # cmd[q].amount
        /\ outcome[r].body.amount = transactions[tx[q]].amount
        /\ goal_contributions[link[q].id].amount = cmd[q].amount
        /\ goals[cmd[q].target].current_amount = cmd[q].amount

\* ------------------------------------------------------------------- C30
\* request r is a roll-forward that succeeded
Rolled(r) ==
    /\ cmd[r].kind \in {"rollover_goal", "renew_obligation"}
    /\ Done(r) /\ outcome[r].status = 200
\* the successful roll-forwards of the item of r that gave the row r got
SameRoll(r) ==
    { q \in Req : /\ Rolled(q) /\ cmd[q].kind = cmd[r].kind
                   /\ cmd[q].target = cmd[r].target
                   /\ outcome[q].body = outcome[r].body }
\* the rows of the table that are the successor r inserted
Successors(r) ==
    { id \in DOMAIN RollTable(r) \ {cmd[r].target} : RollTable(r)[id] = outcome[r].body }

C30_State ==
    \A r \in Req :
        Rolled(r)
        => /\ Cardinality(Successors(r)) = Cardinality(SameRoll(r))
           /\ outcome[r].body.status = "active"
           /\ outcome[r].body.name = snap[r].name

C30_Action ==
    \A r \in Req : \A q \in Req \ {r} :
        (/\ Rolled(q) /\ cmd[r].kind = cmd[q].kind /\ cmd[r].target = cmd[q].target
         /\ pc[r] = "check" /\ Steps(r)
         /\ RollTable(q)[cmd[q].target] = snap[q])
        => /\ pc'[r] \in {"r_insert", "n_insert"}
           /\ snap'[r] = snap[q]

\* C30: rollover_goal and renew_obligation have no guard against
\* repetition: every successful call on the same completed recurring item
\* inserts one more successor, so k calls, one after the other or
\* concurrent, leave k active successors with the same name and next date.
C30_RepeatedRollForward == [] C30_State /\ [][C30_Action]_vars

\* goal g2 was rolled forward twice: two active successors with the name of
\* g2 and the same target date
C30_Witness ==
    \E r \in Req : \E q \in Req \ {r} :
        /\ Rolled(r) /\ Rolled(q)
        /\ cmd[r].kind = "rollover_goal" /\ cmd[q].kind = "rollover_goal"
        /\ cmd[r].target = "g2" /\ cmd[q].target = "g2"
        /\ Cardinality(Successors(r)) = 2
        /\ \A id \in Successors(r) :
              /\ goals[id].status = "active"
              /\ goals[id].name = goals["g2"].name
              /\ goals[id].target_date = NextDateOf(goals["g2"], "target_date")
        /\ goals["g2"].status = "completed"

====
